---- MODULE Spec2Model ----
(***************************************************************************)
(* A model of the C64 emulator core of newhook/6502: the 6526 CIA chip     *)
(* (timers, TOD clock, interrupt control register), the VIC-II raster      *)
(* counter, the 6502 CPU step and the system step loop that binds them.    *)
(***************************************************************************)
EXTENDS Integers, Sequences, FiniteSets, TLC

(***************************************************************************)
(* Unsigned integer arithmetic of Go: bitwise operators and wrap-around.   *)
(***************************************************************************)
RECURSIVE And(_, _)
And(a, b) ==
  IF a = 0 \/ b = 0 THEN 0
  ELSE (a % 2) * (b % 2) + 2 * And(a \div 2, b \div 2)

Or(a, b) == a + b - And(a, b)

Xor(a, b) == a + b - 2 * And(a, b)

Not8(a) == 255 - a

U8(x) == x % 256

U16(x) == x % 65536

(***************************************************************************)
(* CIA register offsets and bit masks (cia.go).                            *)
(***************************************************************************)
PRA == 0
PRB == 1
DDRA == 2
DDRB == 3
TA_LO == 4
TA_HI == 5
TB_LO == 6
TB_HI == 7
TOD_10THS == 8
TOD_SEC == 9
TOD_MIN == 10
TOD_HR == 11
SDR == 12
ICR == 13
CRA == 14
CRB == 15

CRA_START == 1
CRA_PBON == 2
CRA_OUTMODE == 4
CRA_RUNMODE == 8
CRA_FORCE == 16
CRA_INMODE == 32
CRA_SPMODE == 64
CRA_TODIN == 128

CRB_START == 1
CRB_PBON == 2
CRB_OUTMODE == 4
CRB_RUNMODE == 8
CRB_FORCE == 16
CRB_INMODE == 96
CRB_ALARM == 128

ICR_TA == 1
ICR_TB == 2
ICR_TOD == 4
ICR_SDR == 8
ICR_FLAG == 16
ICR_SET == 128

TOD_CLOCK == 0
TOD_ALARM == 1

(***************************************************************************)
(* NewCIA: the chip after construction.  Go zero-initialises every field   *)
(* that the constructor does not name.                                     *)
(***************************************************************************)
NewCIA ==
  [ portA |-> 0, portB |-> 0, ddrA |-> 0, ddrB |-> 0,
    timerALatch |-> 65535, timerBLatch |-> 65535,
    timerA |-> 65535, timerB |-> 65535,
    todTenths |-> 0, todSec |-> 0, todMin |-> 0, todHr |-> 0,
    sdr |-> 0, icrMask |-> 0, icrData |-> 0, cra |-> 0, crb |-> 0,
    todFrequency |-> 0, todMode |-> 0, todCycles |-> 0,
    timerAOutput |-> FALSE, timerBOutput |-> FALSE,
    timerAUnderflow |-> FALSE, timerBUnderflow |-> FALSE,
    irq |-> FALSE, isNMI |-> FALSE,
    todAlarm |-> <<0, 0, 0, 0>>,
    cntPrevious |-> FALSE, cntCurrent |-> FALSE,
    cntPos |-> FALSE, cntHigh |-> FALSE ]

(***************************************************************************)
(* Timer A, one cycle (updateTimerA).                                      *)
(***************************************************************************)
\* c.registers.timerA-- on a uint16
timerADecrement(t) == U16(t + 65535)

timerAIsUnderflow_wrap(t) == t = 65535

\* the underflow test: the decremented counter equals zero
timerAIsUnderflow(t) == t = 0

\* underflow: set the TA bit of the interrupt data if the mask enables it
timerAInterrupt(c) ==
  IF And(c.icrMask, ICR_TA) # 0 THEN Or(c.icrData, ICR_TA) ELSE c.icrData

\* underflow: drive PB6 when the port B output is on
timerAPB6(c) ==
  IF And(c.cra, CRA_PBON) # 0
  THEN IF And(c.cra, CRA_OUTMODE) # 0
       THEN Xor(c.portB, 64)
       ELSE Or(c.portB, 64)
  ELSE c.portB

timerARunMode_keepStart(c) == c.cra

\* underflow: one-shot mode stops the timer
timerARunMode(c) ==
  IF And(c.cra, CRA_RUNMODE) # 0 THEN And(c.cra, Not8(CRA_START)) ELSE c.cra

timerAReload_zero(c) == 0

\* underflow: reload the counter from the latch
timerAReload(c) == c.timerALatch

\* Is this cycle one on which updateTimerA takes the underflow branch?
timerAWillUnderflow(c) ==
  /\ And(c.cra, CRA_START) # 0
  /\ (And(c.cra, CRA_INMODE) # 0 => c.cntPos)
  /\ timerAIsUnderflow(timerADecrement(c.timerA))

\* the decrement and what follows it: the underflow branch, or the end of
\* the PB6 pulse
timerACount(c, t) ==
  IF timerAIsUnderflow(t)
  THEN [c EXCEPT !.icrData = timerAInterrupt(c),
                 !.portB = timerAPB6(c),
                 !.cra = timerARunMode(c),
                 !.timerA = timerAReload(c)]
  ELSE IF And(c.cra, CRA_PBON) # 0 /\ And(c.cra, CRA_OUTMODE) = 0
       THEN [c EXCEPT !.timerA = t, !.portB = And(c.portB, Not8(64))]
       ELSE [c EXCEPT !.timerA = t]

\* the forced load that ends updateTimerA
timerAForceLoad(c) ==
  IF And(c.cra, CRA_FORCE) # 0
  THEN [c EXCEPT !.timerA = c.timerALatch,
                 !.cra = And(c.cra, Not8(CRA_FORCE))]
  ELSE c

updateTimerA(c) ==
  IF And(c.cra, CRA_START) = 0 THEN c
  ELSE IF And(c.cra, CRA_INMODE) # 0 /\ ~c.cntPos THEN c
  ELSE timerAForceLoad(timerACount(c, timerADecrement(c.timerA)))

(***************************************************************************)
(* Timer B, one cycle (updateTimerB).                                      *)
(***************************************************************************)
\* the input that timer B counts, by the INMODE bits of CRB
timerBShouldDecrement(c, inmode) ==
  CASE inmode = 0 -> TRUE
    [] inmode = 1 -> c.cntPos
    [] inmode = 2 -> c.timerAUnderflow
    [] OTHER -> c.timerAUnderflow /\ c.cntHigh

timerBCount(c, t) ==
  IF t = 0
  THEN [c EXCEPT
         !.icrData = IF And(c.icrMask, ICR_TB) # 0
                     THEN Or(c.icrData, ICR_TB)
                     ELSE c.icrData,
         !.portB = IF And(c.crb, CRB_PBON) # 0
                   THEN IF And(c.crb, CRB_OUTMODE) # 0
                        THEN Xor(c.portB, 128)
                        ELSE Or(c.portB, 128)
                   ELSE c.portB,
         !.crb = IF And(c.crb, CRB_RUNMODE) # 0
                 THEN And(c.crb, Not8(CRB_START))
                 ELSE c.crb,
         !.timerB = c.timerBLatch]
  ELSE IF And(c.crb, CRB_PBON) # 0 /\ And(c.crb, CRB_OUTMODE) = 0
       THEN [c EXCEPT !.timerB = t, !.portB = And(c.portB, Not8(128))]
       ELSE [c EXCEPT !.timerB = t]

timerBForceLoad(c) ==
  IF And(c.crb, CRB_FORCE) # 0
  THEN [c EXCEPT !.timerB = c.timerBLatch,
                 !.crb = And(c.crb, Not8(CRB_FORCE))]
  ELSE c

updateTimerB(c) ==
  IF And(c.crb, CRB_START) = 0 THEN c
  ELSE IF ~timerBShouldDecrement(c, And(c.crb, CRB_INMODE) \div 32) THEN c
  ELSE timerBForceLoad(timerBCount(c, U16(c.timerB + 65535)))

(***************************************************************************)
(* Time-of-day clock (todPeriod, updateTOD).                               *)
(***************************************************************************)
todPeriod(c) == IF And(c.cra, CRA_TODIN) # 0 THEN 20000 ELSE 16667

\* add 1 to a BCD seconds or minutes byte (uint8 arithmetic)
bcdInc(v) == IF And(v, 15) = 9 THEN U8(v + 16 - 9) ELSE U8(v + 1)

todHourAdvance_pmAt12(hr) ==
  LET hours == And(hr, 31)
      pmBit == And(hr, 128)
  IN IF hours = 17 THEN Or(18, pmBit)
     ELSE IF hours = 18 THEN Or(1, Xor(pmBit, 128))
     ELSE IF And(hours, 15) = 9 THEN Or(16, pmBit)
     ELSE Or(hours + 1, pmBit)

\* the hour register after a carry out of the minutes
todHourAdvance(hr) ==
  LET hours == And(hr, 31)
      pmBit == And(hr, 128)
  IN IF hours = 17 THEN Or(18, Xor(pmBit, 128))
     ELSE IF hours = 18 THEN Or(1, pmBit)
     ELSE IF And(hours, 15) = 9 THEN Or(16, pmBit)
     ELSE Or(hours + 1, pmBit)

\* the carry chain of updateTOD: tenths, seconds, minutes, hours
todAdvance(c, tenths, sec, min) ==
  IF tenths > 9
  THEN IF sec > 89
       THEN IF min > 89
            THEN [c EXCEPT !.todTenths = 0, !.todSec = 0, !.todMin = 0,
                           !.todHr = todHourAdvance(c.todHr)]
            ELSE [c EXCEPT !.todTenths = 0, !.todSec = 0, !.todMin = min]
       ELSE [c EXCEPT !.todTenths = 0, !.todSec = sec]
  ELSE [c EXCEPT !.todTenths = tenths]

\* the alarm comparison that ends updateTOD
todAlarmCheck(c) ==
  IF /\ c.todTenths = c.todAlarm[1]
     /\ c.todSec = c.todAlarm[2]
     /\ c.todMin = c.todAlarm[3]
     /\ c.todHr = c.todAlarm[4]
     /\ And(c.icrMask, ICR_TOD) # 0
  THEN [c EXCEPT !.icrData = Or(c.icrData, ICR_TOD)]
  ELSE c

updateTOD(c) ==
  todAlarmCheck(todAdvance(c, And(c.todTenths + 1, 15),
                           bcdInc(c.todSec), bcdInc(c.todMin)))

(***************************************************************************)
(* Update: the per-cycle loop and the interrupt check that follows it.     *)
(***************************************************************************)
\* the three parts of one pass of the loop of Update
timerACycle(c) ==
  IF And(c.cra, CRA_START) # 0 /\ And(c.cra, CRA_INMODE) = 0
  THEN updateTimerA(c)
  ELSE c

timerBCycle(c) ==
  IF And(c.crb, CRB_START) # 0
  THEN CASE And(c.crb, CRB_INMODE) = 0 -> updateTimerB(c)
         [] And(c.crb, CRB_INMODE) = 64 ->
              IF c.timerAUnderflow THEN updateTimerB(c) ELSE c
         [] OTHER -> c
  ELSE c

todPeriodCheck(c) ==
  IF c.todCycles >= todPeriod(c)
  THEN [updateTOD(c) EXCEPT !.todCycles = 0]
  ELSE c

todCycle(c) ==
  todPeriodCheck([c EXCEPT !.timerAUnderflow = FALSE,
                           !.timerBUnderflow = FALSE,
                           !.todCycles = U16(c.todCycles + 1)])

UpdateCycle(c) == todCycle(timerBCycle(timerACycle(c)))

RECURSIVE UpdateLoop(_, _)
UpdateLoop(c, cycles) ==
  IF cycles = 0 THEN c ELSE UpdateLoop(UpdateCycle(c), cycles - 1)

\* any enabled interrupt is flagged in the data register
icrPending(c) == And(And(c.icrData, c.icrMask), 31) # 0

\* the result of Update: the chip and the CIAEvent it returns
\* the interrupt check that follows the loop
raiseInterrupt(c) == c.icrData # 0 /\ icrPending(c) /\ ~c.irq

checkInterrupt(c) ==
  [ cia |-> IF raiseInterrupt(c) THEN [c EXCEPT !.irq = TRUE] ELSE c,
    event |-> [ IRQ |-> raiseInterrupt(c) /\ ~c.isNMI,
                NMI |-> raiseInterrupt(c) /\ c.isNMI ] ]

Update(c, cycles) == checkInterrupt(UpdateLoop(c, cycles))

(***************************************************************************)
(* Register writes (WriteRegister, writeICR, writeCRA, writeCRB).          *)
(***************************************************************************)
writeICR(c, val) ==
  IF And(val, ICR_SET) # 0
  THEN [c EXCEPT !.icrMask = Or(c.icrMask, And(val, 31))]
  ELSE [c EXCEPT !.icrMask = And(c.icrMask, Not8(And(val, 31)))]

writeCRA(c, val) ==
  LET oldStart == And(c.cra, CRA_START)
      c1 == [c EXCEPT !.cra = val]
      c2 == IF And(val, CRA_FORCE) # 0
            THEN [c1 EXCEPT !.timerA = c1.timerALatch,
                            !.cra = And(c1.cra, Not8(CRA_FORCE))]
            ELSE c1
      c3 == IF oldStart = 0 /\ And(val, CRA_START) # 0 /\ c2.timerA = 0
            THEN [c2 EXCEPT !.timerA = c2.timerALatch]
            ELSE c2
  IN [c3 EXCEPT !.todFrequency = IF And(val, CRA_TODIN) # 0 THEN 50 ELSE 60]

writeCRB(c, val) ==
  LET oldStart == And(c.crb, CRB_START)
      c1 == [c EXCEPT !.crb = val]
      c2 == IF And(val, CRB_FORCE) # 0
            THEN [c1 EXCEPT !.timerB = c1.timerBLatch,
                            !.crb = And(c1.crb, Not8(CRB_FORCE))]
            ELSE c1
      c3 == IF oldStart = 0 /\ And(val, CRB_START) # 0 /\ c2.timerB = 0
            THEN [c2 EXCEPT !.timerB = c2.timerBLatch]
            ELSE c2
  IN [c3 EXCEPT !.todMode = IF And(val, CRB_ALARM) # 0
                            THEN TOD_ALARM ELSE TOD_CLOCK]

WriteRegister(c, reg, val) ==
  LET alarm == And(c.crb, CRB_ALARM) # 0
      hours == IF And(val, 31) = 0 THEN 18 ELSE And(val, 31)
  IN CASE reg = PRA -> [c EXCEPT !.portA = val]
       [] reg = PRB -> [c EXCEPT !.portB = val]
       [] reg = DDRA -> [c EXCEPT !.ddrA = val]
       [] reg = DDRB -> [c EXCEPT !.ddrB = val]
       [] reg = TA_LO ->
            [c EXCEPT !.timerALatch = Or(And(c.timerALatch, 65280), val)]
       [] reg = TA_HI ->
            LET l == Or(And(c.timerALatch, 255), val * 256)
            IN [c EXCEPT !.timerALatch = l, !.timerA = l]
       [] reg = TB_LO ->
            [c EXCEPT !.timerBLatch = Or(And(c.timerBLatch, 65280), val)]
       [] reg = TB_HI ->
            LET l == Or(And(c.timerBLatch, 255), val * 256)
            IN [c EXCEPT !.timerBLatch = l, !.timerB = l]
       [] reg = TOD_10THS ->
            IF alarm THEN [c EXCEPT !.todAlarm[1] = And(val, 15)]
                     ELSE [c EXCEPT !.todTenths = And(val, 15)]
       [] reg = TOD_SEC ->
            IF alarm THEN [c EXCEPT !.todAlarm[2] = And(val, 127)]
                     ELSE [c EXCEPT !.todSec = And(val, 127)]
       [] reg = TOD_MIN ->
            IF alarm THEN [c EXCEPT !.todAlarm[3] = And(val, 127)]
                     ELSE [c EXCEPT !.todMin = And(val, 127)]
       [] reg = TOD_HR ->
            IF alarm THEN [c EXCEPT !.todAlarm[4] = Or(hours, And(val, 128))]
                     ELSE [c EXCEPT !.todHr = Or(hours, And(val, 128))]
       [] reg = SDR -> [c EXCEPT !.sdr = val]
       [] reg = ICR -> writeICR(c, val)
       [] reg = CRA -> writeCRA(c, val)
       [] reg = CRB -> writeCRB(c, val)
       [] OTHER -> c

(***************************************************************************)
(* Register reads (ReadRegister, readPortA, readPortB, readICR).  A read   *)
(* yields the chip after the read and the byte returned.                   *)
(***************************************************************************)
getPortAInput(c) == And(Not8(And(c.portA, 3)), 3)

readPortA(c) ==
  Or(And(c.portA, c.ddrA), And(getPortAInput(c), Not8(c.ddrA)))

getPortBInput(c) == 255

readPortB(c) ==
  LET inputValues == getPortBInput(c)
      outA == IF And(c.cra, CRA_PBON) # 0
              THEN IF And(c.cra, CRA_OUTMODE) # 0
                   THEN IF c.timerAOutput THEN 64 ELSE 0
                   ELSE IF c.timerAUnderflow THEN 64 ELSE 0
              ELSE 0
      outB == IF And(c.crb, CRB_PBON) # 0
              THEN IF And(c.crb, CRB_OUTMODE) # 0
                   THEN IF c.timerBOutput THEN 128 ELSE 0
                   ELSE IF c.timerBUnderflow THEN 128 ELSE 0
              ELSE 0
  IN Or(Or(And(c.portB, c.ddrB), And(inputValues, Not8(c.ddrB))),
        Or(outA, outB))

readICRClear_keep(c) == c.icrData

\* the interrupt data register after a read of the ICR
readICRClear(c) == 0

readICR(c) ==
  LET value == IF icrPending(c) THEN Or(c.icrData, 128) ELSE c.icrData
      c1 == [c EXCEPT !.icrData = readICRClear(c)]
  IN [ cia |-> IF And(value, 128) = 0 THEN [c1 EXCEPT !.irq = FALSE] ELSE c1,
       value |-> value ]

ReadRegister(c, reg) ==
  CASE reg = PRA -> [cia |-> c, value |-> readPortA(c)]
    [] reg = PRB -> [cia |-> c, value |-> readPortB(c)]
    [] reg = DDRA -> [cia |-> c, value |-> c.ddrA]
    [] reg = DDRB -> [cia |-> c, value |-> c.ddrB]
    [] reg = TA_LO -> [cia |-> c, value |-> And(c.timerA, 255)]
    [] reg = TA_HI -> [cia |-> c, value |-> c.timerA \div 256]
    [] reg = TB_LO -> [cia |-> c, value |-> And(c.timerB, 255)]
    [] reg = TB_HI -> [cia |-> c, value |-> c.timerB \div 256]
    [] reg = TOD_10THS -> [cia |-> c, value |-> c.todTenths]
    [] reg = TOD_SEC -> [cia |-> c, value |-> c.todSec]
    [] reg = TOD_MIN -> [cia |-> c, value |-> c.todMin]
    [] reg = TOD_HR -> [cia |-> c, value |-> c.todHr]
    [] reg = SDR -> [cia |-> c, value |-> c.sdr]
    [] reg = ICR -> readICR(c)
    [] reg = CRA -> [cia |-> c, value |-> c.cra]
    [] reg = CRB -> [cia |-> c, value |-> c.crb]
    [] OTHER -> [cia |-> c, value |-> 0]

\* IsIRQActive: the accessor the system loop would poll
IsIRQActive(c) == FALSE

(***************************************************************************)
(* VIC-II raster engine (vic.go): the raster counter and its interrupts.   *)
(***************************************************************************)
VIC_CYCLES_PER_LINE == 63
TOTAL_LINES == 312
RegScreenControl1 == 17
RegRaster == 18
RegInterrupt == 25
RegInterruptEnable == 26
RegBorderColor == 32
RegSprite7Color == 46
ScreenControl1Raster8 == 128
ScreenControl1DEN == 16
ScreenControl1YSCROLL == 7
InterruptIRQFlag == 128

NewVIC ==
  [ rasterCounter |-> 0, rasterCycle |-> 0, frameCount |-> 0,
    badLine |-> FALSE, badLineEnable |-> FALSE,
    irqLine |-> FALSE, rasterIRQ |-> 0, irqStatus |-> 0,
    sc1 |-> 0, interruptEnable |-> 0, interrupt |-> 0,
    colors |-> [i \in 0..14 |-> 0] ]

updateBadLine(v) ==
  IF /\ v.rasterCounter >= 48 /\ v.rasterCounter <= 247
     /\ And(v.rasterCounter, 7) = And(v.sc1, ScreenControl1YSCROLL)
     /\ And(v.sc1, ScreenControl1DEN) # 0
  THEN [v EXCEPT !.badLine = TRUE, !.badLineEnable = TRUE]
  ELSE [v EXCEPT !.badLine = FALSE]

\* the result of VIC.Update: the chip and the event returned ("none" for nil)
\* the raster counter has just been incremented: frame end, raster IRQ
rasterLine(v) ==
  IF v.rasterCounter >= TOTAL_LINES
  THEN [ vic |-> [v EXCEPT !.rasterCounter = 0,
                           !.frameCount = v.frameCount + 1],
         event |-> "EventFrameComplete" ]
  ELSE IF v.rasterCounter = v.rasterIRQ /\ And(v.interruptEnable, 1) # 0
       THEN [ vic |-> [v EXCEPT !.irqStatus = Or(v.irqStatus, 1)],
              event |-> "EventRasterIRQ" ]
       ELSE [ vic |-> v, event |-> "none" ]

rasterAdvance(v) ==
  IF v.rasterCycle >= VIC_CYCLES_PER_LINE
  THEN rasterLine([v EXCEPT !.rasterCycle = 0,
                            !.rasterCounter = U16(v.rasterCounter + 1)])
  ELSE [ vic |-> v, event |-> "none" ]

VICUpdate(v, cycle) ==
  rasterAdvance(updateBadLine([v EXCEPT !.rasterCycle =
                                           U8(v.rasterCycle + cycle)]))

checkInterrupts(v) ==
  IF And(v.interrupt, v.interruptEnable) # 0
  THEN [v EXCEPT !.irqLine = TRUE,
                 !.interrupt = Or(v.interrupt, InterruptIRQFlag)]
  ELSE v

\* a chip that takes register writes at every raster position
writeWindow_always(v) == TRUE

\* the condition of WriteRegister on GetRasterPosition for $D000-$D01F
writeWindow(v) ==
  (v.rasterCounter < 51 \/ v.rasterCounter > 251) \/ v.rasterCycle < 58

\* VIC.WriteRegister, for the raster, interrupt and colour registers
VICWriteRegister(v, reg, value) ==
  IF reg >= RegBorderColor /\ reg <= RegSprite7Color
  THEN [v EXCEPT !.colors[reg - RegBorderColor] = value]
  ELSE IF writeWindow(v)
  THEN CASE reg = RegScreenControl1 ->
              [v EXCEPT !.rasterIRQ =
                           Or(And(v.rasterIRQ, 255),
                              And(value, ScreenControl1Raster8) * 2),
                        !.sc1 = value]
         [] reg = RegRaster ->
              [v EXCEPT !.rasterIRQ =
                           Or(value, And(v.sc1, ScreenControl1Raster8) * 2)]
         [] reg = RegInterrupt ->
              LET i == And(v.interrupt, Not8(value))
              IN [v EXCEPT !.interrupt = i,
                           !.irqLine = IF i = 0 THEN FALSE ELSE @]
         [] reg = RegInterruptEnable ->
              checkInterrupts([v EXCEPT !.interruptEnable = value])
         [] OTHER -> v
  ELSE v

\* a reader whose $D011 shows no raster bit 8
VICReadRegister_lowByte(v, reg) ==
  [ vic |-> v,
    value |-> CASE reg = RegScreenControl1 -> And(v.sc1, 127)
                [] reg = RegRaster -> And(v.rasterCounter, 255)
                [] OTHER -> 0 ]

\* VIC.ReadRegister, for the raster, interrupt and colour registers: the chip
\* after the read and the value returned
VICReadRegister(v, reg) ==
  [ vic |-> v,
    value |->
      CASE reg = RegScreenControl1 ->
             Or(And(v.sc1, 127), And(v.rasterCounter, 256) \div 2)
        [] reg = RegRaster -> And(v.rasterCounter, 255)
        [] reg = RegInterrupt -> v.interrupt
        [] reg = RegInterruptEnable -> v.interruptEnable
        [] reg >= RegBorderColor /\ reg <= RegSprite7Color ->
             v.colors[reg - RegBorderColor]
        [] OTHER -> 0 ]

(***************************************************************************)
(* 6502 CPU: Step and execute.  Memory is the 64 KiB array of the CPU; the *)
(* model keeps the bytes that differ from zero or were written.            *)
(***************************************************************************)
FlagC == 1
FlagZ == 2
FlagI == 4
FlagD == 8
FlagB == 16
FlagV == 64
FlagN == 128

LDA_IMM == 169
JMP_ABS == 76
CLI == 88
SEI == 120
BRK == 0
NOP == 234
PHA == 72
PHP == 8
PLA == 104
PLP == 40
JSR_ABS == 32
RTS == 96
RTI == 64
BCC == 144
BCS == 176
BEQ == 240
BMI == 48
BNE == 208
BPL == 16
BVC == 80
BVS == 112
LDA_ABX == 189
LDA_ABY == 185
LDA_INY == 177
LDX_ABY == 190
LDY_ABX == 188
STA_ABX == 157
STA_ABY == 153
STA_INY == 145
AND_ABX == 61
AND_ABY == 57
AND_INY == 49
EOR_ABX == 93
EOR_ABY == 89
EOR_INY == 81
ORA_ABX == 29
ORA_ABY == 25
ORA_INY == 17
ADC_ABX == 125
ADC_ABY == 121
ADC_INY == 113
SBC_IMM == 233
SBC_ABX == 253
SBC_ABY == 249
SBC_INY == 241
CMP_ABX == 221
CMP_ABY == 217
CMP_INY == 209

\* the opcodes of execute that read through AbsoluteX, AbsoluteY or
\* IndirectY: what each does with the value, its mode and the cycles it
\* returns when no page is crossed
ReadOps ==
  [ op \in {LDA_ABX, LDY_ABX, AND_ABX, EOR_ABX, ORA_ABX, ADC_ABX, SBC_ABX,
            CMP_ABX} |->
      [ mode |-> "ABX", cycles |-> 4,
        op |-> CASE op = LDA_ABX -> "LDA" [] op = LDY_ABX -> "LDY"
                 [] op = AND_ABX -> "AND" [] op = EOR_ABX -> "EOR"
                 [] op = ORA_ABX -> "ORA" [] op = ADC_ABX -> "ADC"
                 [] op = SBC_ABX -> "SBC" [] op = CMP_ABX -> "CMP" ] ]
  @@
  [ op \in {LDA_ABY, LDX_ABY, AND_ABY, EOR_ABY, ORA_ABY, ADC_ABY, SBC_ABY,
            CMP_ABY} |->
      [ mode |-> "ABY", cycles |-> 4,
        op |-> CASE op = LDA_ABY -> "LDA" [] op = LDX_ABY -> "LDX"
                 [] op = AND_ABY -> "AND" [] op = EOR_ABY -> "EOR"
                 [] op = ORA_ABY -> "ORA" [] op = ADC_ABY -> "ADC"
                 [] op = SBC_ABY -> "SBC" [] op = CMP_ABY -> "CMP" ] ]
  @@
  [ op \in {LDA_INY, AND_INY, EOR_INY, ORA_INY, ADC_INY, SBC_INY, CMP_INY} |->
      [ mode |-> "INY", cycles |-> 5,
        op |-> CASE op = LDA_INY -> "LDA"
                 [] op = AND_INY -> "AND" [] op = EOR_INY -> "EOR"
                 [] op = ORA_INY -> "ORA" [] op = ADC_INY -> "ADC"
                 [] op = SBC_INY -> "SBC" [] op = CMP_INY -> "CMP" ] ]

\* the stores through the same modes and the cycles they return
StoreOps ==
  (STA_ABX :> [mode |-> "ABX", cycles |-> 5])
    @@ (STA_ABY :> [mode |-> "ABY", cycles |-> 5])
    @@ (STA_INY :> [mode |-> "INY", cycles |-> 6])

Branches == {BCC, BCS, BEQ, BMI, BNE, BPL, BVC, BVS}

\* bytes that execute's switch has no case for
InvalidOpcodes == {2, 255}

\* the opcodes of execute's switch that the model carries
Opcodes ==
  {LDA_IMM, JMP_ABS, CLI, SEI, BRK, NOP, PHA, PHP, PLA, PLP, JSR_ABS, RTS,
   RTI, SBC_IMM} \cup Branches \cup DOMAIN ReadOps \cup DOMAIN StoreOps

Peek(m, addr) == IF addr \in DOMAIN m THEN m[addr] ELSE 0

Poke(m, addr, value) ==
  [a \in (DOMAIN m) \cup {addr} |-> IF a = addr THEN value ELSE m[a]]

updateZN(P, value) ==
  LET z == IF value = 0 THEN Or(P, FlagZ) ELSE And(P, Not8(FlagZ))
  IN IF And(value, 128) # 0 THEN Or(z, FlagN) ELSE And(z, Not8(FlagN))

\* push: store at $0100 | SP, then decrement SP
push(s, value) ==
  [s EXCEPT !.mem = Poke(s.mem, Or(256, s.cpu.SP), value),
            !.cpu.SP = U8(s.cpu.SP + 255)]

push16(s, value) == push(push(s, value \div 256), And(value, 255))

readAbsoluteAddress(s) ==
  Peek(s.mem, s.cpu.PC) + 256 * Peek(s.mem, U16(s.cpu.PC + 1))

\* the parts of BRK: push P with B set, set I, load PC from $FFFE/$FFFF
pushP(s) == push(s, Or(s.cpu.P, FlagB))

setI(s) == [s EXCEPT !.cpu.P = Or(s.cpu.P, FlagI)]

loadVector(s) ==
  [s EXCEPT !.cpu.PC = Peek(s.mem, 65534) + 256 * Peek(s.mem, 65535)]

\* readImmediate: the byte at PC, and PC moved past it
readImmediate(s) ==
  [ s |-> [s EXCEPT !.cpu.PC = U16(s.cpu.PC + 1)],
    value |-> Peek(s.mem, s.cpu.PC) ]

\* a pull that reads the stack before it moves SP
pull_before(s) ==
  [ s |-> [s EXCEPT !.cpu.SP = U8(s.cpu.SP + 1)],
    value |-> Peek(s.mem, Or(256, s.cpu.SP)) ]

\* pull: increment SP, then read $0100 | SP
pull(s) ==
  [ s |-> [s EXCEPT !.cpu.SP = U8(s.cpu.SP + 1)],
    value |-> Peek(s.mem, Or(256, U8(s.cpu.SP + 1))) ]

\* pull16: the low byte, then the high byte
pull16(s) ==
  [ s |-> pull(pull(s).s).s,
    value |-> pull(pull(s).s).value * 256 + pull(s).value ]

\* PLA: A takes the pulled byte, Z and N follow it
plaA(r) ==
  [r.s EXCEPT !.cpu.A = r.value, !.cpu.P = updateZN(r.s.cpu.P, r.value)]

\* PLP: P takes the pulled byte but keeps its own B
plpP(r) ==
  [r.s EXCEPT !.cpu.P = Or(And(r.value, Not8(FlagB)),
                           And(And(r.s.cpu.P, FlagB), FlagB))]

\* JSR: read the target, push the address of the last byte of the JSR
jsr(s) ==
  [push16([s EXCEPT !.cpu.PC = U16(s.cpu.PC + 2)],
          U16(U16(s.cpu.PC + 2) + 65535))
     EXCEPT !.cpu.PC = readAbsoluteAddress(s)]

\* an RTS that returns to the address it pulls
rtsPC_same(r) == [r.s EXCEPT !.cpu.PC = r.value]

\* RTS: PC is the pulled address plus one
rtsPC(r) == [r.s EXCEPT !.cpu.PC = U16(r.value + 1)]

\* RTI: P is the pulled byte with B cleared, PC the pulled address
rtiP(r) == [r.s EXCEPT !.cpu.P = And(r.value, Not8(FlagB))]

rtiPC(r) == [r.s EXCEPT !.cpu.PC = r.value]

\* a target counted from the address of the operand byte
branchTarget_early(r) ==
  U16(r.s.cpu.PC - 1 + (IF r.value >= 128 THEN r.value - 256 ELSE r.value)
        + 65536)

\* int8(offset) added to PC in 32 bits and cut to 16
branchTarget(r) ==
  U16(r.s.cpu.PC + (IF r.value >= 128 THEN r.value - 256 ELSE r.value)
        + 65536)

\* a taken branch that never pays for a page crossing
branchTaken_flat(r) ==
  [ s |-> [r.s EXCEPT !.cpu.PC = branchTarget(r)], cycles |-> 3 ]

\* the taken branch, r = readImmediate's result
branchTaken(r) ==
  [ s |-> [r.s EXCEPT !.cpu.PC = branchTarget(r)],
    cycles |-> IF And(r.s.cpu.PC, 65280) # And(branchTarget(r), 65280)
               THEN 4 ELSE 3 ]

branch(s, condition) ==
  IF ~condition
  THEN [ s |-> readImmediate(s).s, cycles |-> 2 ]
  ELSE branchTaken(readImmediate(s))

\* the condition each branch opcode passes to branch
branchCondition(P, opcode) ==
  CASE opcode = BCC -> And(P, FlagC) = 0
    [] opcode = BCS -> And(P, FlagC) # 0
    [] opcode = BEQ -> And(P, FlagZ) # 0
    [] opcode = BMI -> And(P, FlagN) # 0
    [] opcode = BNE -> And(P, FlagZ) = 0
    [] opcode = BPL -> And(P, FlagN) = 0
    [] opcode = BVC -> And(P, FlagV) = 0
    [] opcode = BVS -> And(P, FlagV) # 0

\* an index that never costs a cycle
pageCrossed_never(addr, finalAddr) == FALSE

\* pageCrossed: the high bytes of the base and the indexed address differ
pageCrossed(addr, finalAddr) == And(addr, 65280) # And(finalAddr, 65280)

\* readAbsoluteX and readAbsoluteY, index the value of X or Y: the byte at
\* the 16-bit sum, PC past the operand, and whether a page was crossed
readAbsoluteIndexed(s, index) ==
  [ s |-> [s EXCEPT !.cpu.PC = U16(s.cpu.PC + 2)],
    value |-> Peek(s.mem, U16(readAbsoluteAddress(s) + index)),
    pageCrossed |-> pageCrossed(readAbsoluteAddress(s),
                                U16(readAbsoluteAddress(s) + index)) ]

\* readIndirectAddress: the pointer at zeroPageAddr, its high byte found
\* within page zero
readIndirectAddress(s, zeroPageAddr) ==
  Peek(s.mem, zeroPageAddr) + 256 * Peek(s.mem, U8(zeroPageAddr + 1))

readIndirectY(s) ==
  [ s |-> [s EXCEPT !.cpu.PC = U16(s.cpu.PC + 1)],
    value |-> Peek(s.mem, U16(readIndirectAddress(s, Peek(s.mem, s.cpu.PC))
                                + s.cpu.Y)),
    pageCrossed |->
      pageCrossed(readIndirectAddress(s, Peek(s.mem, s.cpu.PC)),
                  U16(readIndirectAddress(s, Peek(s.mem, s.cpu.PC))
                        + s.cpu.Y)) ]

\* P with the bits of flag set or cleared
setFlag(P, flag, on) == IF on THEN Or(P, flag) ELSE And(P, Not8(flag))

\* the 16-bit sum of adc, with its decimal adjustments when D is set
adcSum(A, value, P) ==
  LET sum == A + value + And(P, FlagC)
          + (IF And(P, FlagD) # 0
                  /\ And(A, 15) + And(value, 15) + And(P, FlagC) > 9
             THEN 6 ELSE 0)
  IN IF And(P, FlagD) # 0 /\ sum > 153 THEN sum + 96 ELSE sum

\* adc: carry from the sum, overflow from the signs, A and Z, N
adcFlags(s, value, sum) ==
  [s EXCEPT
     !.cpu.A = U8(sum),
     !.cpu.P = updateZN(
                 setFlag(setFlag(s.cpu.P, FlagC, sum > 255), FlagV,
                         And(Xor(s.cpu.A, value), 128) = 0
                           /\ And(Xor(s.cpu.A, U8(sum)), 128) # 0),
                 U8(sum))]

adc(s, value) == adcFlags(s, value, adcSum(s.cpu.A, value, s.cpu.P))

\* sbc: adc of the complement
sbc(s, value) == adc(s, Not8(value))

cmp(s, value) ==
  [s EXCEPT !.cpu.P = updateZN(setFlag(s.cpu.P, FlagC, s.cpu.A >= value),
                               U8(s.cpu.A - value + 256))]

\* what the read opcodes do with the value read
readOp(s, op, value) ==
  CASE op = "LDA" -> [s EXCEPT !.cpu.A = value,
                               !.cpu.P = updateZN(s.cpu.P, value)]
    [] op = "LDX" -> [s EXCEPT !.cpu.X = value,
                               !.cpu.P = updateZN(s.cpu.P, value)]
    [] op = "LDY" -> [s EXCEPT !.cpu.Y = value,
                               !.cpu.P = updateZN(s.cpu.P, value)]
    [] op = "AND" -> [s EXCEPT !.cpu.A = And(s.cpu.A, value),
                               !.cpu.P = updateZN(s.cpu.P,
                                                  And(s.cpu.A, value))]
    [] op = "EOR" -> [s EXCEPT !.cpu.A = Xor(s.cpu.A, value),
                               !.cpu.P = updateZN(s.cpu.P,
                                                  Xor(s.cpu.A, value))]
    [] op = "ORA" -> [s EXCEPT !.cpu.A = Or(s.cpu.A, value),
                               !.cpu.P = updateZN(s.cpu.P,
                                                  Or(s.cpu.A, value))]
    [] op = "ADC" -> adc(s, value)
    [] op = "SBC" -> sbc(s, value)
    [] op = "CMP" -> cmp(s, value)

\* a read opcode e = ReadOps[opcode] once its operand r has been read: one
\* more cycle if a page was crossed
readIndexed(e, r) ==
  [ s |-> readOp(r.s, e.op, r.value),
    cycles |-> IF r.pageCrossed THEN e.cycles + 1 ELSE e.cycles ]

\* a store opcode e = StoreOps[opcode]: A goes to the indexed address
storeIndexed(s, e) ==
  [ s |-> CASE e.mode = "ABX" ->
                 [s EXCEPT !.cpu.PC = U16(s.cpu.PC + 2),
                           !.mem = Poke(s.mem,
                                        U16(readAbsoluteAddress(s) + s.cpu.X),
                                        s.cpu.A)]
            [] e.mode = "ABY" ->
                 [s EXCEPT !.cpu.PC = U16(s.cpu.PC + 2),
                           !.mem = Poke(s.mem,
                                        U16(readAbsoluteAddress(s) + s.cpu.Y),
                                        s.cpu.A)]
            [] e.mode = "INY" ->
                 [s EXCEPT !.cpu.PC = U16(s.cpu.PC + 1),
                           !.mem = Poke(s.mem,
                                        U16(readIndirectAddress(
                                              s, Peek(s.mem, s.cpu.PC))
                                              + s.cpu.Y),
                                        s.cpu.A)],
    cycles |-> e.cycles ]

\* execute(opcode) on s = [cpu, mem], PC already past the opcode: the state
\* after the instruction and the cycles it reports
execute(s, opcode) ==
  CASE opcode = LDA_IMM ->
         LET v == Peek(s.mem, s.cpu.PC)
         IN [ s |-> [s EXCEPT !.cpu.A = v,
                              !.cpu.PC = U16(s.cpu.PC + 1),
                              !.cpu.P = updateZN(s.cpu.P, v)],
              cycles |-> 2 ]
    [] opcode = JMP_ABS ->
         [ s |-> [s EXCEPT !.cpu.PC = readAbsoluteAddress(s)], cycles |-> 3 ]
    [] opcode = CLI ->
         [ s |-> [s EXCEPT !.cpu.P = And(s.cpu.P, Not8(FlagI))], cycles |-> 2 ]
    [] opcode = SEI ->
         [ s |-> [s EXCEPT !.cpu.P = Or(s.cpu.P, FlagI)], cycles |-> 2 ]
    [] opcode = BRK ->
         [ s |-> loadVector(setI(pushP(push16(s, U16(s.cpu.PC + 2))))),
           cycles |-> 7 ]
    [] opcode = NOP -> [ s |-> s, cycles |-> 2 ]
    [] opcode = PHA -> [ s |-> push(s, s.cpu.A), cycles |-> 3 ]
    [] opcode = PHP -> [ s |-> pushP(s), cycles |-> 3 ]
    [] opcode = PLA -> [ s |-> plaA(pull(s)), cycles |-> 4 ]
    [] opcode = PLP -> [ s |-> plpP(pull(s)), cycles |-> 4 ]
    [] opcode = JSR_ABS -> [ s |-> jsr(s), cycles |-> 6 ]
    [] opcode = RTS -> [ s |-> rtsPC(pull16(s)), cycles |-> 6 ]
    [] opcode = RTI -> [ s |-> rtiPC(pull16(rtiP(pull(s)))), cycles |-> 6 ]
    [] opcode \in Branches -> branch(s, branchCondition(s.cpu.P, opcode))
    [] opcode = SBC_IMM ->
         [ s |-> sbc(readImmediate(s).s, readImmediate(s).value),
           cycles |-> 2 ]
    [] opcode \in DOMAIN ReadOps ->
         readIndexed(ReadOps[opcode],
                     CASE ReadOps[opcode].mode = "ABX" ->
                            readAbsoluteIndexed(s, s.cpu.X)
                       [] ReadOps[opcode].mode = "ABY" ->
                            readAbsoluteIndexed(s, s.cpu.Y)
                       [] ReadOps[opcode].mode = "INY" -> readIndirectY(s))
    [] opcode \in DOMAIN StoreOps -> storeIndexed(s, StoreOps[opcode])
    \* default: panic("Unknown opcode"), nothing is returned
    [] opcode \in InvalidOpcodes -> [ s |-> s, cycles |-> 0, panic |-> TRUE ]

\* CPU.Step: fetch, advance PC, execute
CPUStep(s) ==
  execute([s EXCEPT !.cpu.PC = U16(s.cpu.PC + 1)], Peek(s.mem, s.cpu.PC))

(***************************************************************************)
(* The machine (c64.go): Timing, NewC64 and the system Step.               *)
(***************************************************************************)
CYCLES_PER_LINE == 63
LINES_PER_FRAME == 312
NTSC_LINES == 263

NewTiming(isPAL) ==
  [ cyclesPerLine |-> CYCLES_PER_LINE,
    linesPerFrame |-> IF isPAL THEN LINES_PER_FRAME ELSE NTSC_LINES,
    currentCycle |-> 0, cyclesThisLine |-> 0, currentLine |-> 0,
    frameCount |-> 0 ]

TimingStep(t) ==
  LET t1 == [t EXCEPT !.currentCycle = @ + 1, !.cyclesThisLine = @ + 1]
  IN IF t1.cyclesThisLine >= t1.cyclesPerLine
     THEN LET t2 == [t1 EXCEPT !.cyclesThisLine = 0, !.currentLine = @ + 1]
          IN IF t2.currentLine >= t2.linesPerFrame
             THEN [t2 EXCEPT !.currentLine = 0, !.frameCount = @ + 1]
             ELSE t2
     ELSE t1

\* updateInterrupts: its body is commented out
updateInterrupts(m) == m

\* one pass of the loop of Step over m = [timing, vic, cia1, cia2, irqLine,
\* nmiLine]: the timing and the VIC advance, the CIA updates are commented
\* out, the interrupt lines are left to updateInterrupts
StepCycle(m) ==
  updateInterrupts([m EXCEPT !.timing = TimingStep(m.timing),
                             !.vic = VICUpdate(m.vic, 1).vic])

RECURSIVE StepLoop(_, _)
StepLoop(m, cpuCycles) ==
  IF cpuCycles = 0 THEN m ELSE StepLoop(StepCycle(m), cpuCycles - 1)

(***************************************************************************)
(* State.  cia1 and cia2 are the two chips of the machine; obs records     *)
(* what the last operation on a chip was and what it returned, and follows *)
(* the timer A underflows cycle by cycle.  vic, cpu, mem, timing, irqLine  *)
(* and nmiLine are the rest of the C64 struct; sobs counts the system      *)
(* steps and keeps the cycle count the last one got from the CPU; vobs     *)
(* records the last operation on the VIC-II and follows its frames; cobs   *)
(* keeps the CPU registers before the last instructions.                   *)
(***************************************************************************)
VARIABLES cia1, cia2, obs, vic, cpu, mem, timing, irqLine, nmiLine, sobs,
          vobs, cobs, mgr, mobs, dis, asm

\* the memory manager and the record of the last access made through it,
\* and the toolchain: a run of the disassembler and one of the assembler
busvars == <<mgr, mobs, dis, asm>>

\* everything but the toolchain
machinevars ==
  <<cia1, cia2, obs, vic, cpu, mem, timing, irqLine, nmiLine, sobs, vobs,
    cobs, mgr, mobs>>

vars ==
  <<cia1, cia2, obs, vic, cpu, mem, timing, irqLine, nmiLine, sobs,
    vobs, cobs, busvars>>

\* the machine around the chips
sysvars ==
  <<vic, cpu, mem, timing, irqLine, nmiLine, sobs, vobs, cobs, busvars>>

\* bounds of the explored runs
MaxLatch == 3
MaxCycles == 2
MaxElapsed == 7
MaxTicks == 3
MaxSteps == 10
MaxSetup == 2
MaxFrames == 2
MaxVICCycles == 2
MaxExec == 2

NoObs ==
  [ op |-> "new", chip |-> 0, reg |-> 0, val |-> 0, n |-> 0,
    ev |-> [IRQ |-> FALSE, NMI |-> FALSE],
    ufLast |-> FALSE, ufPrev |-> FALSE, ufCount |-> 0,
    gap |-> -1, lastGap |-> -1, since |-> -1, ticks |-> 0 ]

\* Does this cycle of Update run timer A into its underflow branch?
CycleUnderflowsA(c) ==
  /\ And(c.cra, CRA_START) # 0
  /\ And(c.cra, CRA_INMODE) = 0
  /\ timerAWillUnderflow(c)

\* follow the cycles of one Update call: which of them underflowed timer A
RECURSIVE Watch(_, _, _)
Watch(c, g, cycles) ==
  IF cycles = 0 THEN g
  ELSE LET uf == CycleUnderflowsA(c)
           dist == IF g.gap < 0 THEN -1 ELSE g.gap + 1
           g1 == [g EXCEPT !.ufPrev = g.ufLast,
                           !.ufLast = uf,
                           !.ufCount = g.ufCount + (IF uf THEN 1 ELSE 0),
                           !.gap = IF uf THEN 0 ELSE dist,
                           !.lastGap = IF uf THEN dist ELSE g.lastGap,
                           !.since = IF g.since < 0 THEN -1 ELSE g.since + 1]
       IN Watch(UpdateCycle(c), g1, cycles - 1)

\* a write that starts timer A on the system clock, in continuous mode, with
\* the counter at the latch and the TA interrupt enabled
CleanStart(c, reg, val) ==
  /\ reg = CRA
  /\ And(val, CRA_START) # 0
  /\ And(val, CRA_INMODE) = 0
  /\ And(val, CRA_RUNMODE) = 0
  /\ And(c.icrMask, ICR_TA) # 0
  /\ c.icrData = 0
  /\ ~c.irq
  /\ WriteRegister(c, reg, val).timerA = c.timerALatch

ObsWrite(c, chip, reg, val) ==
  [obs EXCEPT !.op = "write", !.chip = chip, !.reg = reg, !.val = val,
              !.n = 0, !.ev = NoObs.ev,
              !.ufLast = FALSE, !.ufPrev = FALSE, !.ufCount = 0,
              !.gap = IF reg \in {TA_LO, TA_HI, CRA} THEN -1 ELSE @,
              !.lastGap = IF reg \in {TA_LO, TA_HI, CRA} THEN -1 ELSE @,
              !.since = IF CleanStart(c, reg, val) THEN 0
                        ELSE IF reg \in {TA_LO, TA_HI, CRA, ICR} THEN -1
                        ELSE @]

ObsRead(chip, reg, val) ==
  [obs EXCEPT !.op = "read", !.chip = chip, !.reg = reg, !.val = val,
              !.n = 0, !.ev = NoObs.ev,
              !.since = IF reg = ICR THEN -1 ELSE @]

ObsUpdate(c, chip, n) ==
  [Watch(c, [obs EXCEPT !.ufCount = 0], n) EXCEPT
      !.op = "update", !.chip = chip, !.reg = 0, !.val = 0, !.n = n,
      !.ev = Update(c, n).event]

(***************************************************************************)
(* The operations of one chip, as its callers (the memory bus, the step    *)
(* loop, the tests) invoke them.                                           *)
(***************************************************************************)
\* register writes explored for the timer A / ICR runs
TimerWrites ==
  ({TA_LO} \X (1..MaxLatch)) \cup ({TA_HI} \X {0})
    \cup ({ICR} \X {ICR_SET + ICR_TA, ICR_TA})
    \cup ({CRA} \X {0, CRA_START, CRA_START + CRA_RUNMODE,
                    CRA_START + CRA_FORCE})

TimerReads == {ICR, TA_LO, CRA}

CIA1Write(inputs) ==
  \E w \in inputs :
    /\ cia1' = WriteRegister(cia1, w[1], w[2])
    /\ obs' = ObsWrite(cia1, 1, w[1], w[2])
    /\ UNCHANGED <<cia2, sysvars>>

CIA1Read(regs) ==
  \E reg \in regs :
    LET r == ReadRegister(cia1, reg)
    IN /\ cia1' = r.cia
       /\ obs' = ObsRead(1, reg, r.value)
       /\ UNCHANGED <<cia2, sysvars>>

CIA1Update ==
  \E n \in 0..MaxCycles :
    /\ cia1.todCycles + n <= MaxElapsed
    /\ cia1' = Update(cia1, n).cia
    /\ obs' = ObsUpdate(cia1, 1, n)
    /\ UNCHANGED <<cia2, sysvars>>

TimerWrite == CIA1Write(TimerWrites)

TimerRead == CIA1Read(TimerReads)

\* NewC64 over a memory image: PC from the reset vector, SP = $FF, P = I
NewC64(image) ==
  [ cpu |-> [ A |-> 0, X |-> 0, Y |-> 0,
              PC |-> Peek(image, 65532) + 256 * Peek(image, 65533),
              SP |-> 255, P |-> FlagI ],
    mem |-> image, vic |-> NewVIC, cia1 |-> NewCIA, cia2 |-> NewCIA,
    timing |-> NewTiming(FALSE), irqLine |-> FALSE, nmiLine |-> FALSE ]

NoSteps == [ steps |-> 0, n |-> 0 ]

\* nothing observed yet on the VIC-II: no operation, no event, no cycle run;
\* the reader has seen raster line 0, the line the chip starts on
NoVObs ==
  [ op |-> "new", reg |-> 0, val |-> 0, ev |-> "none",
    cycles |-> 0, since |-> 0, period |-> -1, frames |-> 0,
    tsince |-> 0, tperiod |-> -1,
    seenTo |-> 1, lastSeenTo |-> -1, irqs |-> 0, pal |-> TRUE ]

\* no instruction executed yet by the CPU
NoCObs ==
  [ n |-> 0, op |-> -1, cycles |-> 0, first |-> -1, prev |-> -1,
    ops |-> <<>>, result |-> "none" ]

InitMachine(image) ==
  \E c \in {NewC64(image)} :
     /\ cpu = c.cpu
     /\ mem = c.mem
     /\ vic = c.vic
     /\ timing = c.timing
     /\ irqLine = c.irqLine
     /\ nmiLine = c.nmiLine
     /\ sobs = NoSteps
     /\ vobs = NoVObs
     /\ cobs = [NoCObs EXCEPT !.first = c.cpu]

\* memory as NewCPU leaves it: all zero
NoImage == [a \in {} |-> 0]

(***************************************************************************)
(* Memory manager: RAM, the BASIC, KERNAL and character ROMs, and the      *)
(* banking the processor port selects.  RAM and ROM keep the bytes that    *)
(* differ from zero or were written.                                       *)
(***************************************************************************)
BASIC_ROM_START == 40960
BASIC_ROM_END == 49151
VIC_FIRST_PAGE == 53248
VIC_LAST_PAGE == 54016
IO_START == 53248
IO_END == 57343
KERNAL_ROM_START == 57344
CIA1_PAGE == 56320
CIA2_PAGE == 56576
ZERO_PAGE == 0
PROCESSOR_PORT == 1
PLA_PORT == 0

\* a configuration that never banks BASIC or KERNAL out
updateMemoryConfig_romsStay(m) ==
  [m EXCEPT !.config = [LORAM |-> TRUE, HIRAM |-> TRUE,
                        CHAREN |-> And(m.processorPort, 4) # 0]]

updateMemoryConfig(m) ==
  [m EXCEPT !.config = [LORAM |-> And(m.processorPort, 1) # 0,
                        HIRAM |-> And(m.processorPort, 2) # 0,
                        CHAREN |-> And(m.processorPort, 4) # 0]]

NewManager ==
  updateMemoryConfig(
    [ ram |-> NoImage, basic |-> NoImage, kernal |-> NoImage,
      char |-> NoImage, processorPort |-> 55, plaPort |-> 0,
      config |-> [LORAM |-> FALSE, HIRAM |-> FALSE, CHAREN |-> FALSE] ])

\* data: [len, bytes]; a file of the wrong length is refused
LoadROM(m, data, romType) ==
  CASE romType = "basic" ->
         IF data.len # 8192 THEN m ELSE [m EXCEPT !.basic = data.bytes]
    [] romType = "kernal" ->
         IF data.len # 8192 THEN m ELSE [m EXCEPT !.kernal = data.bytes]
    [] romType = "char" ->
         IF data.len # 4096 THEN m ELSE [m EXCEPT !.char = data.bytes]
    [] OTHER -> m

\* address & 0xFF00
Page(address) == address - (address % 256)

\* the chips the manager forwards to: [vic, cia1, cia2]
Read(m, io, address) ==
  IF Page(address) = ZERO_PAGE
  THEN [ io |-> io,
         value |-> IF address = PLA_PORT THEN m.plaPort
                   ELSE IF address = PROCESSOR_PORT THEN m.processorPort
                   ELSE Peek(m.ram, address) ]
  ELSE IF Page(address) >= BASIC_ROM_START /\ Page(address) <= BASIC_ROM_END
  THEN [ io |-> io,
         value |-> IF m.config.LORAM
                   THEN Peek(m.basic, address - BASIC_ROM_START)
                   ELSE Peek(m.ram, address) ]
  ELSE IF Page(address) >= KERNAL_ROM_START
  THEN [ io |-> io,
         value |-> IF m.config.HIRAM
                   THEN Peek(m.kernal, address - KERNAL_ROM_START)
                   ELSE Peek(m.ram, address) ]
  ELSE IF Page(address) >= VIC_FIRST_PAGE /\ Page(address) <= VIC_LAST_PAGE
  THEN IF m.config.CHAREN
       THEN \* VIC.ReadRegister(address & 0x7f)
            [ io |-> [io EXCEPT !.vic =
                        VICReadRegister(io.vic, address % 128).vic],
              value |-> VICReadRegister(io.vic, address % 128).value ]
       ELSE [ io |-> io, value |-> Peek(m.ram, address) ]
  ELSE IF Page(address) = CIA1_PAGE
  THEN IF m.config.CHAREN
       THEN [ io |-> [io EXCEPT !.cia1 =
                        ReadRegister(io.cia1, address % 16).cia],
              value |-> ReadRegister(io.cia1, address % 16).value ]
       ELSE [ io |-> io, value |-> Peek(m.ram, address) ]
  ELSE IF Page(address) = CIA2_PAGE
  THEN IF m.config.CHAREN
       THEN [ io |-> [io EXCEPT !.cia2 =
                        ReadRegister(io.cia2, address % 16).cia],
              value |-> ReadRegister(io.cia2, address % 16).value ]
       ELSE [ io |-> io, value |-> Peek(m.ram, address) ]
  ELSE [ io |-> io, value |-> Peek(m.ram, address) ]

Write(m, io, address, value) ==
  IF Page(address) = ZERO_PAGE
  THEN [ io |-> io,
         m |-> IF address = PLA_PORT
               THEN updateMemoryConfig([m EXCEPT !.plaPort = value])
               ELSE IF address = PROCESSOR_PORT
               THEN updateMemoryConfig([m EXCEPT !.processorPort = value])
               ELSE [m EXCEPT !.ram = Poke(m.ram, address, value)] ]
  ELSE IF Page(address) >= VIC_FIRST_PAGE /\ Page(address) <= VIC_LAST_PAGE
  THEN IF m.config.CHAREN
       THEN [ io |-> [io EXCEPT !.vic =
                        VICWriteRegister(io.vic, address % 128, value)],
              m |-> m ]
       ELSE [ io |-> io, m |-> [m EXCEPT !.ram = Poke(m.ram, address, value)] ]
  ELSE IF Page(address) = CIA1_PAGE
  THEN IF m.config.CHAREN
       THEN [ io |-> [io EXCEPT !.cia1 =
                        WriteRegister(io.cia1, address % 16, value)],
              m |-> m ]
       ELSE [ io |-> io, m |-> [m EXCEPT !.ram = Poke(m.ram, address, value)] ]
  ELSE IF Page(address) = CIA2_PAGE
  THEN IF m.config.CHAREN
       THEN [ io |-> [io EXCEPT !.cia2 =
                        WriteRegister(io.cia2, address % 16, value)],
              m |-> m ]
       ELSE [ io |-> io, m |-> [m EXCEPT !.ram = Poke(m.ram, address, value)] ]
  ELSE [ io |-> io, m |-> [m EXCEPT !.ram = Poke(m.ram, address, value)] ]

\* Map: the three ROMs copied over the RAM at their addresses
Map(m) ==
  [m EXCEPT !.ram =
     [ a \in DOMAIN m.ram
             \cup { BASIC_ROM_START + o : o \in DOMAIN m.basic }
             \cup { KERNAL_ROM_START + o : o \in DOMAIN m.kernal }
             \cup { IO_START + o : o \in DOMAIN m.char } |->
         IF a >= BASIC_ROM_START /\ a <= BASIC_ROM_END
         THEN Peek(m.basic, a - BASIC_ROM_START)
         ELSE IF a >= KERNAL_ROM_START
         THEN Peek(m.kernal, a - KERNAL_ROM_START)
         ELSE IF a >= IO_START /\ a <= IO_END
         THEN Peek(m.char, a - IO_START)
         ELSE m.ram[a] ] ]

\* the ROM files of a run: first and last byte of each, and the glyph byte
\* under the border colour register
BasicFile == [len |-> 8192, bytes |-> (0 :> 148) @@ (8191 :> 224)]
KernalFile == [len |-> 8192, bytes |-> (0 :> 133) @@ (8191 :> 255)]
CharFile ==
  [len |-> 4096, bytes |-> (0 :> 60) @@ (32 :> 24) @@ (3076 :> 102)
                             @@ (3330 :> 126) @@ (4095 :> 15)]

\* main: the three ROMs loaded
LoadedManager ==
  LoadROM(LoadROM(LoadROM(NewManager, BasicFile, "basic"),
                  KernalFile, "kernal"), CharFile, "char")

\* the managers a run starts with: as NewManager leaves it (the tests), with
\* the ROMs loaded, and with the ROMs loaded and mapped (main)
Managers == {NewManager, LoadedManager, Map(LoadedManager)}

\* the last access made through the manager: its kind, address and value
\* (written or returned), the last value each address was written with, the
\* last value written to the processor port, and the manager the run
\* started with
NoMObs ==
  [ n |-> 0, op |-> "none", addr |-> -1, value |-> -1, written |-> NoImage,
    port |-> 55, first |-> NewManager, chips |-> TRUE ]

\* no disassembly under way: an empty memory, nothing read, no location
NoDis ==
  [ memory |-> <<>>, startAddr |-> 0, length |-> 0, pc |-> 0, rows |-> <<>>,
    reads |-> {} ]

\* an empty source line
NoLine ==
  [ Label |-> "", Directive |-> "", Instruction |-> "", form |-> "none",
    sym |-> "", num |-> 0, values |-> <<>> ]

\* NewAssembler, with no source given; line is the position of the parser
\* in the source, err and done how Assemble returned; at2, refs and last
\* record what pass 2 did
NewAssembler ==
  [ source |-> <<>>, symbols |-> [l \in {} |-> 0], currentPass |-> 0,
    pc |-> 0, output |-> <<>>, line |-> 1, err |-> FALSE, done |-> FALSE,
    at2 |-> [l \in {} |-> 0], refs |-> {},
    last |-> [n |-> 0, l |-> NoLine, bytes |-> <<>>] ]

InitTools ==
  /\ dis = NoDis
  /\ asm = NewAssembler

InitBus ==
  /\ mgr = NewManager
  /\ mobs = NoMObs
  /\ InitTools

Init ==
  /\ cia1 = NewCIA
  /\ cia2 = NewCIA
  /\ obs = NoObs
  /\ InitBus
  /\ InitMachine(NoImage)

NextCIA == TimerWrite \/ TimerRead \/ CIA1Update

SpecCIA == Init /\ [][NextCIA]_vars

(***************************************************************************)
(* Properties of the interrupt control register and of timer A.            *)
(***************************************************************************)
\* C4: a read of the ICR returns (data & 0x1F) | (0x80 if an enabled
\* interrupt is pending) and leaves the interrupt data register zero, so an
\* ICR read that immediately follows another ICR read returns $00.
C4_ICRReadReturnsAndClears ==
  [][ (obs'.op = "read" /\ obs'.reg = ICR /\ obs'.chip = 1) =>
        /\ obs'.val = Or(And(cia1.icrData, 31),
                         IF And(And(cia1.icrData, cia1.icrMask), 31) # 0
                         THEN 128 ELSE 0)
        /\ cia1'.icrData = 0
        /\ (obs.op = "read" /\ obs.reg = ICR => obs'.val = 0) ]_vars

\* a read of the ICR has just returned $81 (TA pending and enabled)
C4_Witness ==
  /\ obs.op = "read" /\ obs.reg = ICR /\ obs.val = 129
  /\ cia1.icrData = 0

\* C5 as stated: consecutive timer A underflows in continuous mode are
\* exactly latch + 1 cycles apart.
C5_PeriodLatchPlusOne ==
  obs.lastGap >= 0 => obs.lastGap = cia1.timerALatch + 1

\* C5 as amended: with a latch L >= 1, consecutive timer A underflows in
\* continuous mode on the system clock are exactly L cycles apart.
C5_PeriodLatch ==
  (obs.lastGap >= 0 /\ cia1.timerALatch >= 1) =>
     obs.lastGap = cia1.timerALatch

\* two underflows in a row have been seen, at least two cycles apart
C5_Witness ==
  /\ obs.op = "update"
  /\ obs.lastGap >= 2
  /\ obs.ufLast
  /\ And(cia1.cra, CRA_RUNMODE) = 0

\* C6: L cycles after timer A was started in continuous mode from a latch
\* L >= 1 with the TA interrupt enabled, the counter is back at L, the TA
\* bit of the interrupt data is set and the interrupt line is high.
C6_ReloadAndInterruptAfterL ==
  (obs.since >= 0 /\ cia1.timerALatch >= 1 /\ obs.since = cia1.timerALatch) =>
     /\ cia1.timerA = cia1.timerALatch
     /\ And(cia1.icrData, ICR_TA) # 0
     /\ cia1.irq

\* the run of the test: latch 2, two cycles after the start
C6_Witness ==
  /\ obs.op = "update"
  /\ obs.since = 2
  /\ cia1.timerALatch = 2
  /\ cia1.timerA = 2
  /\ cia1.irq

\* C7: in one-shot mode the underflow of timer A clears START, and while
\* START is clear no Update changes the counter or underflows the timer.
C7_OneShotStops ==
  [][ (obs'.op = "update" /\ obs'.chip = 1) =>
        /\ (And(cia1.cra, CRA_RUNMODE) # 0 /\ obs'.ufCount > 0) =>
              /\ And(cia1'.cra, CRA_START) = 0
              /\ obs'.ufCount = 1
        /\ And(cia1.cra, CRA_START) = 0 =>
              /\ cia1'.timerA = cia1.timerA
              /\ cia1'.cra = cia1.cra
              /\ obs'.ufCount = 0 ]_vars

\* a one-shot run has underflowed and stopped, and a later Update ran
C7_Witness ==
  /\ obs.op = "update" /\ obs.n > 0
  /\ obs.ufCount = 0
  /\ obs.gap > 0
  /\ And(cia1.cra, CRA_RUNMODE) # 0
  /\ And(cia1.cra, CRA_START) = 0
  /\ cia1.timerA = cia1.timerALatch

(***************************************************************************)
(* Timer A output on PB6.                                                  *)
(***************************************************************************)
PB6Writes ==
  ({DDRB} \X {64}) \cup ({TA_LO} \X (1..MaxLatch)) \cup ({TA_HI} \X {0})
    \cup ({CRA} \X {CRA_START + CRA_PBON,
                    CRA_START + CRA_PBON + CRA_OUTMODE,
                    CRA_START + CRA_PBON + CRA_RUNMODE})

PB6Write == CIA1Write(PB6Writes)

PB6Read == CIA1Read({PRB})

NextPB6 == PB6Write \/ PB6Read \/ CIA1Update

SpecPB6 == Init /\ [][NextPB6]_vars

\* bit 6 of what a read of port B returns
PB6(c) == And(ReadRegister(c, PRB).value, 64)

\* C9: with the timer A output on PB6 enabled and PB6 an output, stepping
\* one cycle at a time: in pulse mode a read of port B shows bit 6 high
\* after a cycle on which timer A underflowed and low after the next cycle
\* (unless that one underflows too); in toggle mode bit 6 inverts on each
\* underflow and holds its level on every other cycle.
C9_PB6PulseAndToggle ==
  [][ ( /\ obs'.op = "update" /\ obs'.chip = 1 /\ obs'.n = 1
        /\ And(cia1.cra, CRA_PBON) # 0
        /\ And(cia1.ddrB, 64) # 0 ) =>
        IF And(cia1.cra, CRA_OUTMODE) = 0
        THEN /\ obs'.ufLast => PB6(cia1') = 64
             /\ (obs.ufLast /\ ~obs'.ufLast) => PB6(cia1') = 0
        ELSE /\ obs'.ufLast => PB6(cia1') = 64 - PB6(cia1)
             /\ ~obs'.ufLast => PB6(cia1') = PB6(cia1) ]_vars

(***************************************************************************)
(* The time-of-day clock: the registers are written, then the clock ticks, *)
(* either by a direct updateTOD or by the Update cycle that completes a    *)
(* TOD period.                                                             *)
(***************************************************************************)
FromBCD(b) == (b \div 16) * 10 + (b % 16)

ToBCD(n) == (n \div 10) * 16 + (n % 10)

\* hours 1..12 in BCD, AM and PM, and 0 (which the write turns into 12)
HourWrites == {0} \cup { ToBCD(h) + pm : h \in 1..12, pm \in {0, 128} }

TODWrites ==
  ({TOD_HR} \X HourWrites) \cup ({TOD_MIN} \X {88, 89})
    \cup ({TOD_SEC} \X {89}) \cup ({TOD_10THS} \X {9})

TODWrite == CIA1Write(TODWrites)

ObsTick(c) ==
  [obs EXCEPT !.op = "tod", !.chip = 1, !.reg = 0, !.val = c.todHr,
              !.n = 0, !.ev = NoObs.ev, !.ticks = @ + 1]

TODTick ==
  /\ obs.ticks < MaxTicks
  /\ cia1' = updateTOD(cia1)
  /\ obs' = ObsTick(cia1)
  /\ UNCHANGED <<cia2, sysvars>>

TODUpdate ==
  /\ obs.ticks < MaxTicks
  /\ cia1.todCycles + 1 >= todPeriod(cia1)
  /\ cia1' = Update(cia1, 1).cia
  /\ obs' = ObsTick(cia1)
  /\ UNCHANGED <<cia2, sysvars>>

InitTOD ==
  /\ cia1 \in { [NewCIA EXCEPT !.todCycles = t] : t \in {0, 16666} }
  /\ cia2 = NewCIA
  /\ obs = NoObs
  /\ InitBus
  /\ InitMachine(NoImage)

NextTOD == TODWrite \/ TODTick \/ TODUpdate

SpecTOD == InitTOD /\ [][NextTOD]_vars

\* the clock stands at xx:59:59.9, so the next tick carries out of minutes
MinutesCarry(c) == c.todTenths = 9 /\ c.todSec = 89 /\ c.todMin = 89

\* C10: on every carry out of the minutes the BCD hour advances 1, 2, ...,
\* 11, 12, 1 (12 wraps to 1), the PM bit toggles exactly on 11 -> 12, and a
\* tick without such a carry leaves the hour register alone.
C10_HourAdvance ==
  [][ (obs'.op = "tod" /\ obs'.ticks = obs.ticks + 1) =>
        LET h == And(cia1.todHr, 31)
            pm == And(cia1.todHr, 128)
        IN IF MinutesCarry(cia1)
           THEN h \in {ToBCD(k) : k \in 1..12} =>
                  /\ And(cia1'.todHr, 31) = ToBCD((FromBCD(h) % 12) + 1)
                  /\ (And(cia1'.todHr, 128) # pm) <=> (h = 17)
           ELSE cia1'.todHr = cia1.todHr ]_vars

\* the clock has just gone from 11:59:59.9 AM to 12:00:00.0 PM
C10_Witness ==
  /\ obs.op = "tod" /\ obs.val = 17
  /\ cia1.todHr = 146
  /\ cia1.todMin = 0 /\ cia1.todSec = 0 /\ cia1.todTenths = 0

(***************************************************************************)
(* The machine: a program is loaded, the peripherals are programmed        *)
(* through their register files, and Step runs one instruction at a time.  *)
(***************************************************************************)
\* $0200: CLI; NOP; LDA #1; JMP $0200.   $0300: SEI; JMP $0200.
\* Reset vector $0200, IRQ vector $0300.
ImageLoop ==
  (512 :> CLI) @@ (513 :> NOP) @@ (514 :> LDA_IMM) @@ (515 :> 1)
    @@ (516 :> JMP_ABS) @@ (517 :> 0) @@ (518 :> 2)
    @@ (768 :> SEI) @@ (769 :> JMP_ABS) @@ (770 :> 0) @@ (771 :> 2)
    @@ (65532 :> 0) @@ (65533 :> 2) @@ (65534 :> 0) @@ (65535 :> 3)

Images == {NoImage, ImageLoop}

\* the chip programming of the timer A interrupt tests
SysWrites == {<<TA_LO, 1>>, <<TA_HI, 0>>, <<ICR, ICR_SET + ICR_TA>>,
              <<CRA, CRA_START>>}

VICWrites == {<<RegRaster, 1>>, <<RegInterruptEnable, 1>>,
              <<RegInterrupt, 1>>, <<RegBorderColor, 6>>}

\* C64.Step
C64Step ==
  /\ sobs.steps < MaxSteps
  /\ Peek(mem, cpu.PC) \in Opcodes
  /\ \E r \in {CPUStep([cpu |-> cpu, mem |-> mem])} :
     \E m \in {StepLoop([timing |-> timing, vic |-> vic,
                          cia1 |-> cia1, cia2 |-> cia2,
                          irqLine |-> irqLine, nmiLine |-> nmiLine],
                         r.cycles)} :
        /\ cpu' = r.s.cpu
        /\ mem' = r.s.mem
        /\ timing' = m.timing
        /\ vic' = m.vic
        /\ cia1' = m.cia1
        /\ cia2' = m.cia2
        /\ irqLine' = m.irqLine
        /\ nmiLine' = m.nmiLine
        /\ sobs' = [steps |-> sobs.steps + 1, n |-> r.cycles]
        /\ UNCHANGED <<obs, vobs, cobs, busvars>>

VICWrite ==
  \E w \in VICWrites :
    /\ vic' = VICWriteRegister(vic, w[1], w[2])
    /\ UNCHANGED <<cia1, cia2, obs, cpu, mem, timing, irqLine, nmiLine, sobs,
                   vobs, cobs, busvars>>

CIA2Write(inputs) ==
  \E w \in inputs :
    /\ cia2' = WriteRegister(cia2, w[1], w[2])
    /\ obs' = ObsWrite(cia2, 2, w[1], w[2])
    /\ UNCHANGED <<cia1, sysvars>>

CIA1Cycle ==
  /\ cia1.todCycles < MaxSetup
  /\ cia1' = Update(cia1, 1).cia
  /\ obs' = ObsUpdate(cia1, 1, 1)
  /\ UNCHANGED <<cia2, sysvars>>

CIA2Cycle ==
  /\ cia2.todCycles < MaxSetup
  /\ cia2' = Update(cia2, 1).cia
  /\ obs' = ObsUpdate(cia2, 2, 1)
  /\ UNCHANGED <<cia1, sysvars>>

CIA1Program == CIA1Write(SysWrites)

CIA2Program == CIA2Write(SysWrites)

InitSys ==
  /\ cia1 = NewCIA
  /\ cia2 = NewCIA
  /\ obs = NoObs
  /\ InitBus
  /\ \E image \in Images : InitMachine(image)

NextSys == C64Step \/ VICWrite \/ CIA1Program \/ CIA1Cycle

SpecSys == InitSys /\ [][NextSys]_vars

\* the two chips side by side, programmed alike
NextChips == CIA1Program \/ CIA1Cycle \/ CIA2Program \/ CIA2Cycle

SpecChips == Init /\ [][NextChips]_vars

(***************************************************************************)
(* Properties of the system step.                                          *)
(***************************************************************************)
\* the raster position as one number of cycles into the frame
VICPos(v) == v.rasterCounter * VIC_CYCLES_PER_LINE + v.rasterCycle

\* the raster interrupt flag that VIC.Update sets
VICRasterPending(v) == And(v.irqStatus, 1) # 0

\* the level the peripherals ask for: VIC raster interrupt or CIA 1 pending
AggregatedIRQ == VICRasterPending(vic) \/ icrPending(cia1)

\* C1: every system step whose instruction reports n cycles advances the
\* VIC-II, CIA 1 and CIA 2 by exactly n cycles each.
C1_StepAdvancesAll ==
  [][ sobs'.steps = sobs.steps + 1 =>
        /\ VICPos(vic') = VICPos(vic) + sobs'.n
        /\ cia1'.todCycles = cia1.todCycles + sobs'.n
        /\ cia2'.todCycles = cia2.todCycles + sobs'.n ]_vars

\* C2: at the end of every system step the aggregated IRQ line equals
\* (VIC raster interrupt pending) or (CIA 1 has a masked interrupt
\* pending), and the aggregated NMI line equals (CIA 2 has a masked
\* interrupt pending).
C2_AggregatedLines ==
  [][ sobs'.steps = sobs.steps + 1 =>
        /\ irqLine' = (VICRasterPending(vic') \/ icrPending(cia1'))
        /\ nmiLine' = icrPending(cia2') ]_vars

\* C3: a step that starts with the aggregated IRQ high and I = 0 performs
\* the IRQ sequence before its instruction (the stack then holds the PC and
\* the status of the interrupted program, B clear); a step that starts with
\* I = 1 performs no IRQ sequence and just executes the instruction at PC.
C3_IRQDispatch ==
  [][ sobs'.steps = sobs.steps + 1 =>
        /\ (AggregatedIRQ /\ And(cpu.P, FlagI) = 0) =>
              /\ Peek(mem', Or(256, cpu.SP)) = cpu.PC \div 256
              /\ Peek(mem', Or(256, U8(cpu.SP + 255))) = cpu.PC % 256
              /\ Peek(mem', Or(256, U8(cpu.SP + 254)))
                   = And(cpu.P, Not8(FlagB))
        /\ And(cpu.P, FlagI) # 0 =>
              /\ cpu' = CPUStep([cpu |-> cpu, mem |-> mem]).s.cpu
              /\ mem' = CPUStep([cpu |-> cpu, mem |-> mem]).s.mem ]_vars

\* C8: an Update that makes a masked interrupt pending on chip 2 signals
\* NMI and not IRQ; one that makes it pending on chip 1 signals IRQ and
\* not NMI.
C8_ChipRoles ==
  [][ /\ ( /\ obs'.op = "update" /\ obs'.chip = 2
           /\ ~icrPending(cia2) /\ icrPending(cia2') ) =>
              (obs'.ev.NMI /\ ~obs'.ev.IRQ)
      /\ ( /\ obs'.op = "update" /\ obs'.chip = 1
           /\ ~icrPending(cia1) /\ icrPending(cia1') ) =>
              (obs'.ev.IRQ /\ ~obs'.ev.NMI) ]_vars

(***************************************************************************)
(* The video frame: the VIC-II and the Timing stepped one cycle at a time, *)
(* as the loop of Step does, for a PAL and for an NTSC machine.            *)
(***************************************************************************)
\* raster-Y as a register reader sees it: $D012 and bit 7 of $D011
ReadRasterY(v) ==
  VICReadRegister(v, RegRaster).value
    + 2 * And(VICReadRegister(v, RegScreenControl1).value,
              ScreenControl1Raster8)

\* vobs after one cycle that left the VIC as r = [vic, event] and the timing
\* as t: the cycles since the last frame end of each, the length of the last
\* frame of each, and how far a reader polling raster-Y after every cycle
\* has counted up from 0 within the frame
ObsFrame(r, t) ==
  [vobs EXCEPT
     !.op = "cycle", !.reg = 0, !.val = 0, !.ev = r.event,
     !.cycles = @ + 1,
     !.since = IF r.event = "EventFrameComplete" THEN 0 ELSE @ + 1,
     !.period = IF r.event = "EventFrameComplete" THEN vobs.since + 1 ELSE @,
     !.frames = IF r.event = "EventFrameComplete" THEN @ + 1 ELSE @,
     !.tsince = IF t.frameCount # timing.frameCount THEN 0 ELSE @ + 1,
     !.tperiod = IF t.frameCount # timing.frameCount
                 THEN vobs.tsince + 1 ELSE @,
     !.seenTo = IF r.event = "EventFrameComplete"
                THEN (IF ReadRasterY(r.vic) = 0 THEN 1 ELSE 0)
                ELSE IF ReadRasterY(r.vic) = @ THEN @ + 1 ELSE @,
     !.lastSeenTo = IF r.event = "EventFrameComplete" THEN vobs.seenTo ELSE @,
     !.irqs = IF r.event = "EventRasterIRQ" THEN @ + 1 ELSE @]

\* one pass of the loop of Step on the video side
FrameCycle ==
  /\ vobs.frames < MaxFrames
  /\ \E r \in {VICUpdate(vic, 1)} : \E t \in {TimingStep(timing)} :
        /\ vic' = r.vic
        /\ timing' = t
        /\ vobs' = ObsFrame(r, t)
  /\ UNCHANGED <<cia1, cia2, obs, cpu, mem, irqLine, nmiLine, sobs, cobs,
                 busvars>>

InitFrame ==
  /\ cia1 = NewCIA
  /\ cia2 = NewCIA
  /\ obs = NoObs
  /\ InitBus
  /\ \E isPAL \in BOOLEAN : \E c \in {NewC64(NoImage)} :
        /\ cpu = c.cpu
        /\ mem = c.mem
        /\ vic = c.vic
        /\ timing = NewTiming(isPAL)
        /\ irqLine = c.irqLine
        /\ nmiLine = c.nmiLine
        /\ sobs = NoSteps
        /\ vobs = [NoVObs EXCEPT !.pal = isPAL]
        /\ cobs = [NoCObs EXCEPT !.first = c.cpu]

NextFrame == FrameCycle

SpecFrame == InitFrame /\ [][NextFrame]_vars

\* C11: stepping the video timing one cycle at a time, frame-complete
\* events occur exactly once per (cycles per line x lines per frame) cycles:
\* every 63 x 312 cycles for PAL and every 65 x 263 cycles for NTSC, with no
\* extra and no missing event; checked on the frame ends of the Timing and
\* on the EventFrameComplete events of the VIC-II.
C11_FramePeriod ==
  /\ vobs.tperiod >= 0 =>
        vobs.tperiod = (IF vobs.pal THEN 63 * 312 ELSE 65 * 263)
  /\ vobs.period >= 0 =>
        vobs.period = (IF vobs.pal THEN 63 * 312 ELSE 65 * 263)
  /\ vobs.tsince < (IF vobs.pal THEN 63 * 312 ELSE 65 * 263)
  /\ vobs.since < (IF vobs.pal THEN 63 * 312 ELSE 65 * 263)

\* C12: in every reachable VIC-II state raster-Y lies in 0..311 and the
\* raster cycle in 0..62, and between two consecutive frame-complete events
\* the raster-Y value a register reader sees takes every value of 0..311.
C12_RasterRange ==
  /\ vic.rasterCounter \in 0..(TOTAL_LINES - 1)
  /\ vic.rasterCycle \in 0..(VIC_CYCLES_PER_LINE - 1)
  /\ ReadRasterY(vic) = vic.rasterCounter
  /\ vobs.lastSeenTo >= 0 => vobs.lastSeenTo = TOTAL_LINES

\* a second frame-complete event has just been returned, and the reader saw
\* all 312 lines since the first
C12_Witness ==
  /\ vobs.ev = "EventFrameComplete" /\ vobs.frames = 2
  /\ vobs.lastSeenTo = TOTAL_LINES
  /\ vic.rasterCounter = 0

(***************************************************************************)
(* The raster interrupt: the VIC-II is programmed through WriteRegister    *)
(* before its first cycle and then stepped cycle by cycle.                 *)
(***************************************************************************)
\* raster line $30, raster interrupt enabled
RasterWrites == {<<RegRaster, 48>>, <<RegInterruptEnable, 1>>}

ObsVICWrite(reg, val) ==
  [vobs EXCEPT !.op = "write", !.reg = reg, !.val = val, !.ev = "none"]

VICProgram ==
  /\ vobs.cycles = 0
  /\ \E w \in RasterWrites :
        /\ vic' = VICWriteRegister(vic, w[1], w[2])
        /\ vobs' = ObsVICWrite(w[1], w[2])
  /\ UNCHANGED <<cia1, cia2, obs, cpu, mem, timing, irqLine, nmiLine, sobs,
                 cobs, busvars>>

NextRaster == VICProgram \/ FrameCycle

SpecRaster == Init /\ [][NextRaster]_vars

\* C13: while the raster interrupt is enabled in the interrupt mask, a
\* raster-IRQ event is emitted on exactly those cycles at which raster-Y
\* advances to a value equal to the programmed raster-IRQ line (line 0
\* reached at frame wrap-around included) and on no other cycle; 63 x 48
\* single-cycle steps from raster-Y = 0 with line $30 yield exactly one.
C13_RasterIRQ ==
  [][ (vobs'.op = "cycle" /\ And(vic.interruptEnable, 1) # 0) =>
        /\ (vobs'.ev = "EventRasterIRQ") <=>
              (/\ vic'.rasterCounter # vic.rasterCounter
               /\ vic'.rasterCounter = vic.rasterIRQ)
        /\ (vobs'.cycles = 63 * 48 /\ vic.rasterIRQ = 48) => vobs'.irqs = 1
    ]_vars

(***************************************************************************)
(* The VIC-II registers: writes and reads through WriteRegister and        *)
(* ReadRegister at raster positions on both sides of every edge of the     *)
(* write window, with the chip stepped a few cycles in between.            *)
(***************************************************************************)
\* <<raster-Y, raster cycle>>: positions Update reaches from a new chip
RasterPositions ==
  { <<0, 0>>, <<47, 61>>, <<50, 62>>, <<51, 57>>, <<51, 58>>, <<51, 61>>,
    <<150, 57>>, <<150, 58>>, <<251, 57>>, <<251, 62>>, <<252, 58>>,
    <<311, 61>> }

RegWrites ==
  { <<RegScreenControl1, 27>>, <<RegScreenControl1, 155>>, <<RegRaster, 48>>,
    <<RegInterruptEnable, 1>>, <<RegInterrupt, 1>>, <<RegInterrupt, 255>>,
    <<RegBorderColor, 6>>, <<RegSprite7Color, 1>> }

RegReads ==
  { RegScreenControl1, RegRaster, RegInterrupt, RegInterruptEnable,
    RegBorderColor, RegSprite7Color }

VICRegWrite ==
  /\ \E w \in RegWrites :
        /\ vic' = VICWriteRegister(vic, w[1], w[2])
        /\ vobs' = ObsVICWrite(w[1], w[2])
  /\ UNCHANGED <<cia1, cia2, obs, cpu, mem, timing, irqLine, nmiLine, sobs,
                 cobs, busvars>>

VICRegRead ==
  /\ \E reg \in RegReads : \E r \in {VICReadRegister(vic, reg)} :
        /\ vic' = r.vic
        /\ vobs' = [vobs EXCEPT !.op = "read", !.reg = reg,
                                !.val = r.value, !.ev = "none"]
  /\ UNCHANGED <<cia1, cia2, obs, cpu, mem, timing, irqLine, nmiLine, sobs,
                 cobs, busvars>>

VICRegCycle ==
  /\ vobs.cycles < MaxVICCycles
  /\ FrameCycle

\* the chip after Update(1) has been called 63 * y + x times on a new one
InitVICReg ==
  /\ cia1 = NewCIA
  /\ cia2 = NewCIA
  /\ obs = NoObs
  /\ InitBus
  /\ \E pos \in RasterPositions : \E c \in {NewC64(NoImage)} :
        /\ cpu = c.cpu
        /\ mem = c.mem
        /\ vic = [c.vic EXCEPT !.rasterCounter = pos[1],
                               !.rasterCycle = pos[2]]
        /\ timing = [c.timing EXCEPT
                       !.currentCycle = VIC_CYCLES_PER_LINE * pos[1] + pos[2],
                       !.cyclesThisLine = pos[2],
                       !.currentLine = pos[1]]
        /\ irqLine = c.irqLine
        /\ nmiLine = c.nmiLine
        /\ sobs = NoSteps
        /\ vobs = NoVObs
        /\ cobs = [NoCObs EXCEPT !.first = c.cpu]

NextVICReg == VICRegWrite \/ VICRegRead \/ VICRegCycle

SpecVICReg == InitVICReg /\ [][NextVICReg]_vars

\* the raster positions at which $D000-$D01F are writable according to C14
C14_Writable(v) ==
  v.rasterCounter < 51 \/ v.rasterCounter > 251 \/ v.rasterCycle < 58

\* what a write of val to reg does to the chip when it takes effect
C14_Effect(v, w, reg, val) ==
  CASE reg = RegScreenControl1 ->
         w = [v EXCEPT !.sc1 = val,
                       !.rasterIRQ = (v.rasterIRQ % 256)
                                        + (IF val >= 128 THEN 256 ELSE 0)]
    [] reg = RegRaster ->
         w = [v EXCEPT !.rasterIRQ = val + (IF v.sc1 >= 128 THEN 256 ELSE 0)]
    [] reg = RegInterruptEnable ->
         /\ w.interruptEnable = val
         /\ \A f \in DOMAIN v \ {"interruptEnable", "irqLine", "interrupt"} :
               w[f] = v[f]
    [] reg = RegInterrupt ->
         \A f \in DOMAIN v \ {"irqLine", "interrupt"} : w[f] = v[f]
    [] reg >= RegBorderColor /\ reg <= RegSprite7Color ->
         w = [v EXCEPT !.colors[reg - RegBorderColor] = val]

InterruptData(v) == Or(v.irqStatus, v.interrupt)

\* C15: a write of value w to the interrupt-data register $D019 clears
\* exactly the interrupt-data bits that are 1 in w and leaves the others
\* unchanged, and whenever the interrupt-data register becomes zero the
\* VIC's IRQ line is low afterwards.
C15_InterruptAcknowledge ==
  [][ (vobs'.op = "write" /\ vobs'.reg = RegInterrupt) =>
        /\ InterruptData(vic') = And(InterruptData(vic), Not8(vobs'.val))
        /\ InterruptData(vic') = 0 => ~vic'.irqLine ]_vars

(***************************************************************************)
(* The CPU alone: registers and memory set up as the tests do (fields      *)
(* assigned directly, a few bytes of program and stack), then Step.        *)
(***************************************************************************)
\* the bytes bs stored from addr on, wrapping at $FFFF
Bytes(addr, bs) ==
  [a \in {U16(addr + i - 1) : i \in 1..Len(bs)} |->
     bs[U16(a - addr + 65536) + 1]]

\* the bytes bs where the next pulls will find them: above sp, within page 1
StackBytes(sp, bs) ==
  [a \in {256 + U8(sp + i) : i \in 1..Len(bs)} |->
     bs[U8(a - 256 - sp + 256)]]

\* push and pull pairs, pulls of a prepared stack, and the LDA + BRK
\* scenario with the vector $1234 at $FFFE/$FFFF
StackPrograms ==
  { [pc |-> 512, mem |-> Bytes(512, <<PHA, PLA>>), pulls |-> FALSE],
    [pc |-> 512, mem |-> Bytes(512, <<PHP, PLP>>), pulls |-> FALSE],
    [pc |-> 512, mem |-> Bytes(512, <<PLP, NOP>>), pulls |-> TRUE],
    [pc |-> 512, mem |-> Bytes(512, <<RTI>>), pulls |-> TRUE],
    [pc |-> 512,
     mem |-> Bytes(512, <<LDA_IMM, 66, BRK>>) @@ Bytes(65534, <<52, 18>>),
     pulls |-> FALSE] }

\* JSR at the start of a page, across a page end and at the top of memory,
\* to a subroutine at $0400 that is one RTS
JSRPrograms ==
  { [pc |-> a, mem |-> Bytes(a, <<JSR_ABS, 0, 4>>) @@ Bytes(1024, <<RTS>>),
     pulls |-> FALSE] : a \in {512, 766, 65533} }

\* every branch with offsets +5, -5, +127 and -128, in the middle of a
\* page, near a page end, at the top and at the bottom of memory
BranchPrograms ==
  { [pc |-> a, mem |-> Bytes(a, <<op, off>>), pulls |-> FALSE] :
      a \in {512, 752, 65533, 0}, op \in Branches,
      off \in {5, 251, 127, 128} }

\* every read and store opcode of the indexed modes, at $0200, on a base
\* address in the middle of a page, at a page end and at the top of memory
\* (for IndirectY through the pointer at $10, or at $FF and $00), with the
\* index 0, 1 or $FF in X and Y
IndexedPrograms ==
  { [pc |-> 512,
     mem |-> (IF (ReadOps @@ StoreOps)[op].mode = "INY"
              THEN Bytes(512, <<op, zp>>)
                     @@ (zp :> base % 256) @@ (U8(zp + 1) :> base \div 256)
              ELSE Bytes(512, <<op, base % 256, base \div 256>>))
             @@ Bytes(U16(base + 1), <<129>>),
     pulls |-> FALSE, sps |-> {255}, ps |-> {36}, xys |-> {0, 1, 255}] :
      op \in DOMAIN ReadOps \cup DOMAIN StoreOps,
      base \in {768, 1023, 65535}, zp \in {16, 255} }

\* SBC #v in decimal mode, carry clear and set, on BCD operands
DecimalPrograms ==
  { [pc |-> 512, mem |-> Bytes(512, <<SBC_IMM, v>>), pulls |-> FALSE,
     sps |-> {255}, ps |-> {FlagD, FlagD + FlagC},
     as |-> {0, 1, 5, 9, 16, 21, 38, 80, 153}] :
      v \in {0, 1, 5, 9, 16, 21, 38, 80, 153} }

\* a byte that is no opcode, alone at $0200
InvalidPrograms ==
  { [pc |-> 512, mem |-> Bytes(512, <<op>>), pulls |-> FALSE] :
      op \in InvalidOpcodes }

Programs ==
  StackPrograms \cup JSRPrograms \cup BranchPrograms \cup IndexedPrograms
    \cup DecimalPrograms \cup InvalidPrograms

\* one CPU.Step
CPUExec ==
  /\ cobs.n < MaxExec
  /\ Peek(mem, cpu.PC) \in Opcodes \cup InvalidOpcodes
  /\ \E r \in {CPUStep([cpu |-> cpu, mem |-> mem])} :
        /\ cpu' = r.s.cpu
        /\ mem' = r.s.mem
        /\ cobs' = [cobs EXCEPT !.n = @ + 1, !.op = Peek(mem, cpu.PC),
                                !.cycles = r.cycles, !.prev = cpu,
                                !.ops = Append(@, Peek(mem, cpu.PC)),
                                !.result = IF "panic" \in DOMAIN r
                                           THEN "panic" ELSE "cycles"]
  /\ UNCHANGED <<cia1, cia2, obs, vic, timing, irqLine, nmiLine, sobs, vobs,
                 busvars>>

InitCPU ==
  /\ cia1 = NewCIA
  /\ cia2 = NewCIA
  /\ obs = NoObs
  /\ InitBus
  /\ \E c \in {NewC64(NoImage)} :
        /\ vic = c.vic
        /\ timing = c.timing
        /\ irqLine = c.irqLine
        /\ nmiLine = c.nmiLine
        /\ sobs = NoSteps
        /\ vobs = NoVObs
        \* the registers a program does not choose: P is the value NewCPU
        \* sets, B alone, N V Z C, N V Z C and B;
        \* b: the status byte on a prepared stack, under the address $0300
        /\ \E prog \in {q @@ [as |-> {66, 128}, sps |-> {255, 0, 1, 253},
                                ps |-> {36, 16, 195, 211}, xys |-> {0}] :
                           q \in Programs} :
           \E a \in prog.as, sp \in prog.sps, p \in prog.ps, xy \in prog.xys,
              b \in (IF prog.pulls THEN {0, 16, 239, 255} ELSE {0}) :
              /\ cpu = [c.cpu EXCEPT !.PC = prog.pc, !.A = a, !.SP = sp,
                                     !.P = p, !.X = xy, !.Y = xy]
              /\ mem = (IF prog.pulls THEN StackBytes(sp, <<b, 0, 3>>)
                                      ELSE NoImage) @@ prog.mem
              /\ cobs = [NoCObs EXCEPT !.first = cpu]

NextCPU == CPUExec

SpecCPU == InitCPU /\ [][NextCPU]_vars

\* C16: from any CPU state, executing PHA then PLA restores A and SP to
\* their values before the PHA (also when SP wraps between $00 and $FF), and
\* executing PHP then PLP restores SP and every status flag other than B.
C16_PushPullRestores ==
  /\ cobs.ops = <<PHA, PLA>> =>
        /\ cpu.A = cobs.first.A
        /\ cpu.SP = cobs.first.SP
  /\ cobs.ops = <<PHP, PLP>> =>
        /\ cpu.SP = cobs.first.SP
        /\ And(cpu.P, Not8(FlagB)) = And(cobs.first.P, Not8(FlagB))

\* PHA then PLA have run from SP = $00: the push went to $0100, SP wrapped
\* to $FF and back, and A = $80 came back with N set
C16_Witness ==
  /\ cobs.ops = <<PHA, PLA>>
  /\ cobs.first.SP = 0 /\ cobs.prev.SP = 255 /\ cpu.SP = 0
  /\ cpu.A = 128 /\ Peek(mem, 256) = 128
  /\ And(cpu.P, FlagN) # 0

\* C17: the byte pulled by PLP or by RTI leaves the CPU's local B flag
\* untouched: after either instruction, bit B of P equals its value
\* immediately before the instruction, whatever byte was pulled.
C17_PullKeepsB ==
  [][ (cobs'.n = cobs.n + 1 /\ cobs'.op \in {PLP, RTI}) =>
        And(cpu'.P, FlagB) = And(cpu.P, FlagB) ]_vars

\* C18: for a JSR whose target holds an RTS, executing the JSR and then the
\* RTS leaves PC at the address of the instruction following the JSR (JSR
\* address + 3, modulo 65536) and SP equal to its value before the JSR, for
\* every JSR address, target and initial SP, SP wrap-around included.
C18_JSRThenRTS ==
  cobs.ops = <<JSR_ABS, RTS>> =>
    /\ cpu.PC = (cobs.first.PC + 3) % 65536
    /\ cpu.SP = cobs.first.SP

\* the JSR at $02FE has run from SP = $00 and the RTS at $0400 has returned
\* to $0301; the return address $0300 went to $0100 (high) and $01FF (low)
C18_Witness ==
  /\ cobs.ops = <<JSR_ABS, RTS>>
  /\ cobs.first.PC = 766 /\ cobs.first.SP = 0
  /\ cobs.prev.PC = 1024 /\ cobs.prev.SP = 254
  /\ cpu.PC = 769 /\ cpu.SP = 0
  /\ Peek(mem, 256) = 3 /\ Peek(mem, 511) = 0

\* C19: executing BRK through Step pushes the 16-bit value PC + 1 (PC being
\* the program counter after the opcode fetch) high byte first, then pushes
\* P with bit B set, sets I = 1 and loads PC from the vector at $FFFE/$FFFF,
\* decrementing SP by 3 and consuming 7 cycles.
C19_BRK ==
  [][ (cobs'.n = cobs.n + 1 /\ cobs'.op = BRK) =>
        /\ Peek(mem', 256 + cpu.SP) = ((cpu.PC + 1 + 1) % 65536) \div 256
        /\ Peek(mem', 256 + ((cpu.SP + 255) % 256)) = (cpu.PC + 1 + 1) % 256
        /\ Peek(mem', 256 + ((cpu.SP + 254) % 256)) = Or(cpu.P, FlagB)
        /\ And(cpu'.P, FlagI) # 0
        /\ cpu'.PC = Peek(mem, 65534) + 256 * Peek(mem, 65535)
        /\ cpu'.SP = (cpu.SP + 253) % 256
        /\ cobs'.cycles = 7 ]_vars

\* the flag test that decides each branch
C20_Taken(P, opcode) ==
  CASE opcode = BCC -> P % 2 = 0
    [] opcode = BCS -> P % 2 = 1
    [] opcode = BNE -> (P \div 2) % 2 = 0
    [] opcode = BEQ -> (P \div 2) % 2 = 1
    [] opcode = BVC -> (P \div 64) % 2 = 0
    [] opcode = BVS -> (P \div 64) % 2 = 1
    [] opcode = BPL -> P \div 128 = 0
    [] opcode = BMI -> P \div 128 = 1

\* PC after the operand byte of the branch at pc, plus the sign-extended
\* offset found at pc + 1
C20_Target(pc, m) ==
  (pc + 2 + (IF Peek(m, (pc + 1) % 65536) >= 128
             THEN Peek(m, (pc + 1) % 65536) - 256
             ELSE Peek(m, (pc + 1) % 65536)) + 65536) % 65536

\* C20: every branch instruction takes 2 cycles when not taken, 3 cycles
\* when taken without crossing a page and 4 cycles when taken with a page
\* crossing, and a taken branch sets PC to (PC after the operand byte) plus
\* the sign-extended 8-bit offset, modulo 65536.
C20_BranchCycles ==
  [][ (cobs'.n = cobs.n + 1 /\ cobs'.op \in Branches) =>
        IF C20_Taken(cpu.P, cobs'.op)
        THEN /\ cpu'.PC = C20_Target(cpu.PC, mem)
             /\ cobs'.cycles =
                  (IF ((cpu.PC + 2) % 65536) \div 256
                        = C20_Target(cpu.PC, mem) \div 256
                   THEN 3 ELSE 4)
        ELSE /\ cpu'.PC = (cpu.PC + 2) % 65536
             /\ cobs'.cycles = 2 ]_vars

\* the BCC at $FFFD has been taken with offset +5: PC after the operand is
\* $FFFF, the target wraps to $0004 and the page crossing costs 4 cycles
C20_Witness ==
  /\ cobs.n = 1 /\ cobs.op = BCC
  /\ cobs.prev.PC = 65533 /\ Peek(mem, 65534) = 5
  /\ cpu.PC = 4 /\ cobs.cycles = 4

\* C21 as stated: with PC = $0200, memory bytes F0 7F at $0200 (BEQ +127)
\* and Z = 1, one step leaves PC = $0281 and reports 4 cycles.
C21_BEQ127FourCycles ==
  [][ (cobs'.n = cobs.n + 1 /\ cpu.PC = 512 /\ Peek(mem, 512) = BEQ
         /\ Peek(mem, 513) = 127 /\ And(cpu.P, FlagZ) # 0) =>
        (cpu'.PC = 641 /\ cobs'.cycles = 4) ]_vars

\* C21, amended: with PC = $0200, memory bytes F0 7F at $0200 (BEQ +127)
\* and Z = 1, one step leaves PC = $0281 and reports 3 cycles: $0202 and
\* $0281 lie on the same page.
C21_BEQ127ThreeCycles ==
  [][ (cobs'.n = cobs.n + 1 /\ cpu.PC = 512 /\ Peek(mem, 512) = BEQ
         /\ Peek(mem, 513) = 127 /\ And(cpu.P, FlagZ) # 0) =>
        (cpu'.PC = 641 /\ cobs'.cycles = 3) ]_vars

\* the BEQ +127 at $0200 has just been taken with Z = 1
C21_Witness ==
  /\ cobs.n = 1 /\ cobs.op = BEQ
  /\ cobs.prev.PC = 512 /\ And(cobs.prev.P, FlagZ) # 0
  /\ Peek(mem, 513) = 127
  /\ cpu.PC = 641

\* the address an indexed opcode at c.PC names before the index is added:
\* its two operand bytes, or for IndirectY the pointer that its operand
\* byte locates in page zero
C22_Base(c, m, mode) ==
  IF mode = "INY"
  THEN Peek(m, Peek(m, (c.PC + 1) % 65536))
         + 256 * Peek(m, (Peek(m, (c.PC + 1) % 65536) + 1) % 256)
  ELSE Peek(m, (c.PC + 1) % 65536) + 256 * Peek(m, (c.PC + 2) % 65536)

\* adding the index (X for AbsoluteX, Y otherwise) changes the high byte
C22_Crosses(c, m, mode) ==
  C22_Base(c, m, mode) \div 256
    # ((C22_Base(c, m, mode) + (IF mode = "ABX" THEN c.X ELSE c.Y)) % 65536)
        \div 256

\* C22: for every read-style opcode using AbsoluteX, AbsoluteY or IndirectY
\* addressing, the reported cycle count is the base count (4, 4, 5) plus 1
\* if and only if adding the index changes the high byte of the address; for
\* every store-style opcode in these modes the cycle count is the same (5,
\* 5, 6) whether or not a page is crossed.
C22_IndexedCycles ==
  [][ (cobs'.n = cobs.n + 1) =>
        /\ cobs'.op \in DOMAIN ReadOps =>
              cobs'.cycles =
                (IF ReadOps[cobs'.op].mode = "INY" THEN 5 ELSE 4)
                  + (IF C22_Crosses(cpu, mem, ReadOps[cobs'.op].mode)
                     THEN 1 ELSE 0)
        /\ cobs'.op \in DOMAIN StoreOps =>
              cobs'.cycles =
                (IF StoreOps[cobs'.op].mode = "INY" THEN 6 ELSE 5) ]_vars

\* LDA ($FF),Y has run with the pointer $03FF at $FF/$00 and Y = 1: it read
\* $81 from $0400 and reported 5 + 1 cycles
C22_Witness ==
  /\ cobs.n = 1 /\ cobs.op = LDA_INY /\ cobs.cycles = 6
  /\ Peek(mem, 513) = 255 /\ Peek(mem, 255) = 255 /\ Peek(mem, 0) = 3
  /\ cobs.prev.Y = 1 /\ cpu.A = 129

\* the two BCD digits of a byte as a number, 100 for a byte that is not BCD
C23_FromBCD(b) ==
  IF b % 16 <= 9 /\ b \div 16 <= 9 THEN 10 * (b \div 16) + (b % 16) ELSE 100

\* C23: in decimal mode (D = 1), for all valid BCD values A and v and either
\* carry-in, SBC leaves in A the BCD encoding of (A - v - (1 - C)) modulo 100
\* and sets C = 1 if and only if no borrow occurred.
C23_DecimalSBC ==
  [][ (cobs'.n = cobs.n + 1 /\ cobs'.op = SBC_IMM /\ And(cpu.P, FlagD) # 0
         /\ C23_FromBCD(cpu.A) < 100
         /\ C23_FromBCD(Peek(mem, (cpu.PC + 1) % 65536)) < 100) =>
        /\ C23_FromBCD(cpu'.A) =
              (C23_FromBCD(cpu.A)
                 - C23_FromBCD(Peek(mem, (cpu.PC + 1) % 65536))
                 - (1 - (cpu.P % 2)) + 100) % 100
        /\ (cpu'.P % 2 = 1) <=>
              (C23_FromBCD(cpu.A)
                 - C23_FromBCD(Peek(mem, (cpu.PC + 1) % 65536))
                 - (1 - (cpu.P % 2)) >= 0) ]_vars

\* C24: when the byte fetched at PC is not a defined opcode, Step returns an
\* invalid-opcode error to its caller and leaves every CPU register, flag
\* and memory byte unchanged except that PC has been incremented by 1.
C24_InvalidOpcode ==
  [][ (cobs'.n = cobs.n + 1 /\ cobs'.op \in InvalidOpcodes) =>
        /\ cobs'.result = "error"
        /\ cpu' = [cpu EXCEPT !.PC = (cpu.PC + 1) % 65536]
        /\ mem' = mem ]_vars

(***************************************************************************)
(* Banking: accesses through the memory manager                            *)
(***************************************************************************)
MaxMemOps == 3

Chips == [vic |-> vic, cia1 |-> cia1, cia2 |-> cia2]

ObsMemWrite(r, address, value) ==
  [mobs EXCEPT !.n = @ + 1, !.op = "write", !.addr = address,
               !.value = value,
               !.written = Poke(@, address, value),
               !.port = IF address = PROCESSOR_PORT THEN value ELSE @,
               !.chips = r.io = Chips]

ObsMemRead(r, address) ==
  [mobs EXCEPT !.n = @ + 1, !.op = "read", !.addr = address,
               !.value = r.value, !.chips = r.io = Chips]

\* Manager.Write of one byte
MemWrite(addrs, values) ==
  /\ mobs.n < MaxMemOps
  /\ \E address \in addrs, value \in values :
       \E r \in {Write(mgr, Chips, address, value)} :
          /\ mgr' = r.m
          /\ vic' = r.io.vic
          /\ cia1' = r.io.cia1
          /\ cia2' = r.io.cia2
          /\ mobs' = ObsMemWrite(r, address, value)
  /\ UNCHANGED <<obs, cpu, mem, timing, irqLine, nmiLine, sobs, vobs, cobs,
                 dis, asm>>

\* Manager.Read of one byte
MemRead(addrs) ==
  /\ mobs.n < MaxMemOps
  /\ \E address \in addrs :
       \E r \in {Read(mgr, Chips, address)} :
          /\ vic' = r.io.vic
          /\ cia1' = r.io.cia1
          /\ cia2' = r.io.cia2
          /\ mobs' = ObsMemRead(r, address)
  /\ UNCHANGED <<mgr, obs, cpu, mem, timing, irqLine, nmiLine, sobs, vobs,
                 cobs, dis, asm>>

InitManager ==
  /\ cia1 = NewCIA
  /\ cia2 = NewCIA
  /\ obs = NoObs
  /\ InitMachine(NoImage)
  /\ mgr \in Managers
  /\ mobs = [NoMObs EXCEPT !.first = mgr]
  /\ InitTools

\* first and last byte of the BASIC and of the KERNAL range, and the
\* processor port
BankAddrs == {PROCESSOR_PORT, BASIC_ROM_START, BASIC_ROM_END,
              KERNAL_ROM_START, 65535}

\* all ROMs in, BASIC out, KERNAL out, both out
BankValues == {55, 54, 53, 52}

BankWrite == MemWrite(BankAddrs, BankValues)

BankRead == MemRead(BankAddrs)

NextBank == BankWrite \/ BankRead

SpecBank == InitManager /\ [][NextBank]_vars

InBasic(address) == address >= BASIC_ROM_START /\ address <= BASIC_ROM_END

InKernal(address) == address >= KERNAL_ROM_START /\ address <= 65535

\* the byte the ROM files hold for an address of a ROM range
RomByte(address) ==
  IF InBasic(address)
  THEN Peek(mobs.first.basic, address - BASIC_ROM_START)
  ELSE Peek(mobs.first.kernal, address - KERNAL_ROM_START)

\* the ROM over an address is banked in by the processor port last written
BankedIn(address) ==
  IF InBasic(address) THEN And(mobs.port, 1) # 0
                      ELSE And(mobs.port, 2) # 0

\* C25: for every address of $A000-$BFFF and $E000-$FFFF and every value of
\* the processor port, a write leaves its value in the RAM beneath and the
\* ROMs as loaded; a read returns the ROM byte while the last value written
\* to $0001 keeps that ROM banked in, and the last value written to the
\* address once it banks the ROM out.
C25_RomBanking ==
  /\ mobs.op = "write" /\ (InBasic(mobs.addr) \/ InKernal(mobs.addr))
       => /\ Peek(mgr.ram, mobs.addr) = mobs.value
          /\ mgr.basic = mobs.first.basic
          /\ mgr.kernal = mobs.first.kernal
  /\ mobs.op = "read" /\ (InBasic(mobs.addr) \/ InKernal(mobs.addr))
       => IF BankedIn(mobs.addr)
          THEN mobs.value = RomByte(mobs.addr)
          ELSE mobs.addr \in DOMAIN mobs.written
                 => mobs.value = mobs.written[mobs.addr]

\* a read of a written BASIC address right after the port write that banked
\* BASIC out, over loaded ROMs
C25_Witness ==
  /\ mobs.op = "read"
  /\ mobs.addr = BASIC_ROM_START
  /\ mobs.n = 3
  /\ mobs.port = 54
  /\ mobs.first = LoadedManager
  /\ mobs.addr \in DOMAIN mobs.written
  /\ mobs.value = 53

\* the processor port, a VIC-II colour register, a SID address, CIA1 timer A
\* low, CIA2 port A direction, and the last byte of the range
IOAddrs == {PROCESSOR_PORT, 53280, 54272, 56324, 56578, IO_END}

\* all ROMs and I/O in, CHAREN cleared, and a data byte
IOValues == {55, 51, 7}

IOWrite == MemWrite(IOAddrs, IOValues)

IORead == MemRead(IOAddrs)

NextIO == IOWrite \/ IORead

SpecIO == InitManager /\ [][NextIO]_vars

InIO(address) == address >= IO_START /\ address <= IO_END

\* C26: while the CHAREN bit of the processor port is clear, a read of an
\* address in $D000-$DFFF returns the character-ROM byte at offset
\* address - $D000, and a write to such an address leaves its value in RAM
\* and no chip register touched.
C26_CharRomVisible ==
  /\ mobs.op = "read" /\ InIO(mobs.addr) /\ And(mobs.port, 4) = 0
       => mobs.value = Peek(mobs.first.char, mobs.addr - IO_START)
  /\ mobs.op = "write" /\ InIO(mobs.addr) /\ And(mobs.port, 4) = 0
       => /\ Peek(mgr.ram, mobs.addr) = mobs.value
          /\ mobs.chips

(***************************************************************************)
(* Disassembler: the linear sweep over a byte slice                        *)
(***************************************************************************)
MaxMem == 4

instructionSet ==
  (169 :> [Name |-> "LDA", Mode |-> "Immediate"]) @@ (165 :> [Name |-> "LDA", Mode |-> "ZeroPage"])
  @@ (181 :> [Name |-> "LDA", Mode |-> "ZeroPageX"]) @@ (173 :> [Name |-> "LDA", Mode |-> "Absolute"])
  @@ (189 :> [Name |-> "LDA", Mode |-> "AbsoluteX"]) @@ (185 :> [Name |-> "LDA", Mode |-> "AbsoluteY"])
  @@ (161 :> [Name |-> "LDA", Mode |-> "IndirectX"]) @@ (177 :> [Name |-> "LDA", Mode |-> "IndirectY"])
  @@ (162 :> [Name |-> "LDX", Mode |-> "Immediate"]) @@ (166 :> [Name |-> "LDX", Mode |-> "ZeroPage"])
  @@ (182 :> [Name |-> "LDX", Mode |-> "ZeroPageY"]) @@ (174 :> [Name |-> "LDX", Mode |-> "Absolute"])
  @@ (190 :> [Name |-> "LDX", Mode |-> "AbsoluteY"]) @@ (160 :> [Name |-> "LDY", Mode |-> "Immediate"])
  @@ (164 :> [Name |-> "LDY", Mode |-> "ZeroPage"]) @@ (180 :> [Name |-> "LDY", Mode |-> "ZeroPageX"])
  @@ (172 :> [Name |-> "LDY", Mode |-> "Absolute"]) @@ (188 :> [Name |-> "LDY", Mode |-> "AbsoluteX"])
  @@ (133 :> [Name |-> "STA", Mode |-> "ZeroPage"]) @@ (149 :> [Name |-> "STA", Mode |-> "ZeroPageX"])
  @@ (141 :> [Name |-> "STA", Mode |-> "Absolute"]) @@ (157 :> [Name |-> "STA", Mode |-> "AbsoluteX"])
  @@ (153 :> [Name |-> "STA", Mode |-> "AbsoluteY"]) @@ (129 :> [Name |-> "STA", Mode |-> "IndirectX"])
  @@ (145 :> [Name |-> "STA", Mode |-> "IndirectY"]) @@ (134 :> [Name |-> "STX", Mode |-> "ZeroPage"])
  @@ (150 :> [Name |-> "STX", Mode |-> "ZeroPageY"]) @@ (142 :> [Name |-> "STX", Mode |-> "Absolute"])
  @@ (132 :> [Name |-> "STY", Mode |-> "ZeroPage"]) @@ (148 :> [Name |-> "STY", Mode |-> "ZeroPageX"])
  @@ (140 :> [Name |-> "STY", Mode |-> "Absolute"]) @@ (170 :> [Name |-> "TAX", Mode |-> "Implicit"])
  @@ (138 :> [Name |-> "TXA", Mode |-> "Implicit"]) @@ (168 :> [Name |-> "TAY", Mode |-> "Implicit"])
  @@ (152 :> [Name |-> "TYA", Mode |-> "Implicit"]) @@ (186 :> [Name |-> "TSX", Mode |-> "Implicit"])
  @@ (154 :> [Name |-> "TXS", Mode |-> "Implicit"]) @@ (72 :> [Name |-> "PHA", Mode |-> "Implicit"])
  @@ (104 :> [Name |-> "PLA", Mode |-> "Implicit"]) @@ (8 :> [Name |-> "PHP", Mode |-> "Implicit"])
  @@ (40 :> [Name |-> "PLP", Mode |-> "Implicit"]) @@ (41 :> [Name |-> "AND", Mode |-> "Immediate"])
  @@ (37 :> [Name |-> "AND", Mode |-> "ZeroPage"]) @@ (53 :> [Name |-> "AND", Mode |-> "ZeroPageX"])
  @@ (45 :> [Name |-> "AND", Mode |-> "Absolute"]) @@ (61 :> [Name |-> "AND", Mode |-> "AbsoluteX"])
  @@ (57 :> [Name |-> "AND", Mode |-> "AbsoluteY"]) @@ (33 :> [Name |-> "AND", Mode |-> "IndirectX"])
  @@ (49 :> [Name |-> "AND", Mode |-> "IndirectY"]) @@ (73 :> [Name |-> "EOR", Mode |-> "Immediate"])
  @@ (69 :> [Name |-> "EOR", Mode |-> "ZeroPage"]) @@ (85 :> [Name |-> "EOR", Mode |-> "ZeroPageX"])
  @@ (77 :> [Name |-> "EOR", Mode |-> "Absolute"]) @@ (93 :> [Name |-> "EOR", Mode |-> "AbsoluteX"])
  @@ (89 :> [Name |-> "EOR", Mode |-> "AbsoluteY"]) @@ (65 :> [Name |-> "EOR", Mode |-> "IndirectX"])
  @@ (81 :> [Name |-> "EOR", Mode |-> "IndirectY"]) @@ (9 :> [Name |-> "ORA", Mode |-> "Immediate"])
  @@ (5 :> [Name |-> "ORA", Mode |-> "ZeroPage"]) @@ (21 :> [Name |-> "ORA", Mode |-> "ZeroPageX"])
  @@ (13 :> [Name |-> "ORA", Mode |-> "Absolute"]) @@ (29 :> [Name |-> "ORA", Mode |-> "AbsoluteX"])
  @@ (25 :> [Name |-> "ORA", Mode |-> "AbsoluteY"]) @@ (1 :> [Name |-> "ORA", Mode |-> "IndirectX"])
  @@ (17 :> [Name |-> "ORA", Mode |-> "IndirectY"]) @@ (36 :> [Name |-> "BIT", Mode |-> "ZeroPage"])
  @@ (44 :> [Name |-> "BIT", Mode |-> "Absolute"]) @@ (105 :> [Name |-> "ADC", Mode |-> "Immediate"])
  @@ (101 :> [Name |-> "ADC", Mode |-> "ZeroPage"]) @@ (117 :> [Name |-> "ADC", Mode |-> "ZeroPageX"])
  @@ (109 :> [Name |-> "ADC", Mode |-> "Absolute"]) @@ (125 :> [Name |-> "ADC", Mode |-> "AbsoluteX"])
  @@ (121 :> [Name |-> "ADC", Mode |-> "AbsoluteY"]) @@ (97 :> [Name |-> "ADC", Mode |-> "IndirectX"])
  @@ (113 :> [Name |-> "ADC", Mode |-> "IndirectY"]) @@ (233 :> [Name |-> "SBC", Mode |-> "Immediate"])
  @@ (229 :> [Name |-> "SBC", Mode |-> "ZeroPage"]) @@ (245 :> [Name |-> "SBC", Mode |-> "ZeroPageX"])
  @@ (237 :> [Name |-> "SBC", Mode |-> "Absolute"]) @@ (253 :> [Name |-> "SBC", Mode |-> "AbsoluteX"])
  @@ (249 :> [Name |-> "SBC", Mode |-> "AbsoluteY"]) @@ (225 :> [Name |-> "SBC", Mode |-> "IndirectX"])
  @@ (241 :> [Name |-> "SBC", Mode |-> "IndirectY"]) @@ (201 :> [Name |-> "CMP", Mode |-> "Immediate"])
  @@ (197 :> [Name |-> "CMP", Mode |-> "ZeroPage"]) @@ (213 :> [Name |-> "CMP", Mode |-> "ZeroPageX"])
  @@ (205 :> [Name |-> "CMP", Mode |-> "Absolute"]) @@ (221 :> [Name |-> "CMP", Mode |-> "AbsoluteX"])
  @@ (217 :> [Name |-> "CMP", Mode |-> "AbsoluteY"]) @@ (193 :> [Name |-> "CMP", Mode |-> "IndirectX"])
  @@ (209 :> [Name |-> "CMP", Mode |-> "IndirectY"]) @@ (224 :> [Name |-> "CPX", Mode |-> "Immediate"])
  @@ (228 :> [Name |-> "CPX", Mode |-> "ZeroPage"]) @@ (236 :> [Name |-> "CPX", Mode |-> "Absolute"])
  @@ (192 :> [Name |-> "CPY", Mode |-> "Immediate"]) @@ (196 :> [Name |-> "CPY", Mode |-> "ZeroPage"])
  @@ (204 :> [Name |-> "CPY", Mode |-> "Absolute"]) @@ (230 :> [Name |-> "INC", Mode |-> "ZeroPage"])
  @@ (246 :> [Name |-> "INC", Mode |-> "ZeroPageX"]) @@ (238 :> [Name |-> "INC", Mode |-> "Absolute"])
  @@ (254 :> [Name |-> "INC", Mode |-> "AbsoluteX"]) @@ (232 :> [Name |-> "INX", Mode |-> "Implicit"])
  @@ (200 :> [Name |-> "INY", Mode |-> "Implicit"]) @@ (198 :> [Name |-> "DEC", Mode |-> "ZeroPage"])
  @@ (214 :> [Name |-> "DEC", Mode |-> "ZeroPageX"]) @@ (206 :> [Name |-> "DEC", Mode |-> "Absolute"])
  @@ (222 :> [Name |-> "DEC", Mode |-> "AbsoluteX"]) @@ (202 :> [Name |-> "DEX", Mode |-> "Implicit"])
  @@ (136 :> [Name |-> "DEY", Mode |-> "Implicit"]) @@ (10 :> [Name |-> "ASL", Mode |-> "Accumulator"])
  @@ (6 :> [Name |-> "ASL", Mode |-> "ZeroPage"]) @@ (22 :> [Name |-> "ASL", Mode |-> "ZeroPageX"])
  @@ (14 :> [Name |-> "ASL", Mode |-> "Absolute"]) @@ (30 :> [Name |-> "ASL", Mode |-> "AbsoluteX"])
  @@ (74 :> [Name |-> "LSR", Mode |-> "Accumulator"]) @@ (70 :> [Name |-> "LSR", Mode |-> "ZeroPage"])
  @@ (86 :> [Name |-> "LSR", Mode |-> "ZeroPageX"]) @@ (78 :> [Name |-> "LSR", Mode |-> "Absolute"])
  @@ (94 :> [Name |-> "LSR", Mode |-> "AbsoluteX"]) @@ (42 :> [Name |-> "ROL", Mode |-> "Accumulator"])
  @@ (38 :> [Name |-> "ROL", Mode |-> "ZeroPage"]) @@ (54 :> [Name |-> "ROL", Mode |-> "ZeroPageX"])
  @@ (46 :> [Name |-> "ROL", Mode |-> "Absolute"]) @@ (62 :> [Name |-> "ROL", Mode |-> "AbsoluteX"])
  @@ (106 :> [Name |-> "ROR", Mode |-> "Accumulator"]) @@ (102 :> [Name |-> "ROR", Mode |-> "ZeroPage"])
  @@ (118 :> [Name |-> "ROR", Mode |-> "ZeroPageX"]) @@ (110 :> [Name |-> "ROR", Mode |-> "Absolute"])
  @@ (126 :> [Name |-> "ROR", Mode |-> "AbsoluteX"]) @@ (76 :> [Name |-> "JMP", Mode |-> "Absolute"])
  @@ (108 :> [Name |-> "JMP", Mode |-> "Indirect"]) @@ (32 :> [Name |-> "JSR", Mode |-> "Absolute"])
  @@ (96 :> [Name |-> "RTS", Mode |-> "Implicit"]) @@ (144 :> [Name |-> "BCC", Mode |-> "Relative"])
  @@ (176 :> [Name |-> "BCS", Mode |-> "Relative"]) @@ (240 :> [Name |-> "BEQ", Mode |-> "Relative"])
  @@ (48 :> [Name |-> "BMI", Mode |-> "Relative"]) @@ (208 :> [Name |-> "BNE", Mode |-> "Relative"])
  @@ (16 :> [Name |-> "BPL", Mode |-> "Relative"]) @@ (80 :> [Name |-> "BVC", Mode |-> "Relative"])
  @@ (112 :> [Name |-> "BVS", Mode |-> "Relative"]) @@ (24 :> [Name |-> "CLC", Mode |-> "Implicit"])
  @@ (56 :> [Name |-> "SEC", Mode |-> "Implicit"]) @@ (88 :> [Name |-> "CLI", Mode |-> "Implicit"])
  @@ (120 :> [Name |-> "SEI", Mode |-> "Implicit"]) @@ (184 :> [Name |-> "CLV", Mode |-> "Implicit"])
  @@ (216 :> [Name |-> "CLD", Mode |-> "Implicit"]) @@ (248 :> [Name |-> "SED", Mode |-> "Implicit"])
  @@ (0 :> [Name |-> "BRK", Mode |-> "Implicit"]) @@ (64 :> [Name |-> "RTI", Mode |-> "Implicit"])
  @@ (234 :> [Name |-> "NOP", Mode |-> "Implicit"])

\* GetOperandBytes: the number of operand bytes of an addressing mode
GetOperandBytes(mode) ==
  IF mode \in {"Implicit", "Accumulator"} THEN 0
  ELSE IF mode \in {"Immediate", "ZeroPage", "ZeroPageX", "ZeroPageY",
                    "IndirectX", "IndirectY", "Relative"} THEN 1
  ELSE IF mode \in {"Absolute", "AbsoluteX", "AbsoluteY", "Indirect"} THEN 2
  ELSE 0

\* Location.Inst == nil
NoInst == [Name |-> "", Mode |-> "nil"]

\* memory[i] of the 0-based byte slice
ByteAt(memory, i) == memory[i + 1]

\* the operand count of the opcode at pc
operandCount(memory, pc) ==
  GetOperandBytes(instructionSet[ByteAt(memory, pc)].Mode)

\* disassembleLocation: the location at pc and the indices of memory read
\* for it
disassembleLocation(memory, pc) ==
  IF ByteAt(memory, pc) \notin DOMAIN instructionSet
  THEN [ loc |-> [PC |-> pc % 65536, Value |-> ByteAt(memory, pc),
                  OperandBytes |-> <<>>, Inst |-> NoInst],
         reads |-> {pc} ]
  ELSE IF pc + operandCount(memory, pc) >= Len(memory)
  THEN [ loc |-> [PC |-> pc % 65536, Value |-> ByteAt(memory, pc),
                  OperandBytes |-> <<>>, Inst |-> NoInst],
         reads |-> {pc} ]
  ELSE [ loc |-> [PC |-> pc % 65536, Value |-> ByteAt(memory, pc),
                  OperandBytes |->
                    [ i \in 1 .. operandCount(memory, pc)
                        |-> ByteAt(memory, pc + i) ],
                  Inst |-> instructionSet[ByteAt(memory, pc)]],
         reads |-> pc .. pc + operandCount(memory, pc) ]

\* Location.Size
Size(l) ==
  IF l.Inst = NoInst THEN 1 ELSE 1 + GetOperandBytes(l.Inst.Mode)

\* one turn of the loop of DisassembleMemory and DisassembleInstructions
DisassembleLoop ==
  /\ dis.pc < dis.startAddr + dis.length
  /\ \E r \in {disassembleLocation(dis.memory, dis.pc)} :
       dis' = [dis EXCEPT !.rows = Append(@, r.loc),
                          !.pc = @ + Size(r.loc),
                          !.reads = @ \cup r.reads]
  /\ UNCHANGED <<machinevars, asm>>

\* LDA #, STA absolute, RTS, and a byte that is no opcode
DisBytes == {169, 141, 96, 2}

RECURSIVE ByteSeqs(_)
ByteSeqs(n) ==
  IF n = 0 THEN {<<>>}
  ELSE { Append(m, b) : m \in ByteSeqs(n - 1), b \in DisBytes }

\* the memories swept: every slice of 1 to MaxMem of the bytes above, and
\* LDA #$42; STA $1234; RTS
DisMemories ==
  UNION { ByteSeqs(n) : n \in 1 .. MaxMem } \cup {<<169, 66, 141, 52, 18, 96>>}

\* DisassembleMemory(memory, startAddr, length) over a window inside memory;
\* DisassembleInstructions and DisassembleBytes are the window (0, len)
InitDis ==
  /\ cia1 = NewCIA
  /\ cia2 = NewCIA
  /\ obs = NoObs
  /\ InitMachine(NoImage)
  /\ mgr = NewManager
  /\ mobs = NoMObs
  /\ asm = NewAssembler
  /\ \E memory \in DisMemories :
       \E startAddr \in 0 .. Len(memory) - 1 :
          \E length \in 1 .. Len(memory) - startAddr :
             dis = [NoDis EXCEPT !.memory = memory, !.startAddr = startAddr,
                                 !.length = length, !.pc = startAddr]

NextDis == DisassembleLoop

SpecDis == InitDis /\ [][NextDis]_vars

\* the sweep covers the whole slice, as DisassembleInstructions does
WholeSlice == dis.startAddr = 0 /\ dis.length = Len(dis.memory)

\* the operand byte count of the opcode of a location, 0 for a byte that is
\* no opcode
OpcodeOperands(l) ==
  IF l.Value \in DOMAIN instructionSet
  THEN GetOperandBytes(instructionSet[l.Value].Mode)
  ELSE 0

\* C27: the locations of a swept byte range are in address order and
\* contiguous: the first is at the range start, each following one is at the
\* previous PC + 1 + the operand byte count of the previous opcode (+ 1
\* after a byte that is no opcode), and each location whose operand bytes
\* lie in the range carries them.
C27_LinearSweep ==
  WholeSlice =>
    /\ Len(dis.rows) > 0 => dis.rows[1].PC = dis.startAddr
    /\ \A i \in 1 .. Len(dis.rows) - 1 :
         dis.rows[i + 1].PC = dis.rows[i].PC + 1 + OpcodeOperands(dis.rows[i])
    /\ \A i \in 1 .. Len(dis.rows) :
         dis.rows[i].PC + OpcodeOperands(dis.rows[i]) < Len(dis.memory)
           => dis.rows[i].OperandBytes =
                [ k \in 1 .. OpcodeOperands(dis.rows[i])
                    |-> ByteAt(dis.memory, dis.rows[i].PC + k) ]

\* C28: disassembling the window [start, start + length) reads no byte at
\* an address outside the window, also when the operand bytes of the last
\* instruction would extend past the window end.
C28_ReadsInsideWindow ==
  dis.reads \subseteq dis.startAddr .. dis.startAddr + dis.length - 1

(***************************************************************************)
(* Assembler: two passes over the lines of a source.  A line is what the   *)
(* lexer and ParseLine make of its text: label, directive or instruction,  *)
(* and the operand as its shape (form), its base (a symbol name, or a      *)
(* number already read) and, for .byte and .word, its list of values.      *)
(***************************************************************************)
MaxLines == 3

asmInstructionSet ==
  ("ADC" :> [Immediate |-> [Opcode |-> 105, Size |-> 2], ZeroPage |->
       [Opcode |-> 101, Size |-> 2], ZeroPageX |-> [Opcode |-> 117, Size
       |-> 2], Absolute |-> [Opcode |-> 109, Size |-> 3], AbsoluteX |->
       [Opcode |-> 125, Size |-> 3], AbsoluteY |-> [Opcode |-> 121, Size
       |-> 3], IndirectX |-> [Opcode |-> 97, Size |-> 2], IndirectY |->
       [Opcode |-> 113, Size |-> 2]])
  @@ ("AND" :> [Immediate |-> [Opcode |-> 41, Size |-> 2], ZeroPage |-> [Opcode
       |-> 37, Size |-> 2], ZeroPageX |-> [Opcode |-> 53, Size |-> 2],
       Absolute |-> [Opcode |-> 45, Size |-> 3], AbsoluteX |-> [Opcode |->
       61, Size |-> 3], AbsoluteY |-> [Opcode |-> 57, Size |-> 3],
       IndirectX |-> [Opcode |-> 33, Size |-> 2], IndirectY |-> [Opcode
       |-> 49, Size |-> 2]])
  @@ ("ASL" :> [Accumulator |-> [Opcode |-> 10, Size |-> 1], ZeroPage |->
       [Opcode |-> 6, Size |-> 2], ZeroPageX |-> [Opcode |-> 22, Size |->
       2], Absolute |-> [Opcode |-> 14, Size |-> 3], AbsoluteX |-> [Opcode
       |-> 30, Size |-> 3]])
  @@ ("BIT" :> [ZeroPage |-> [Opcode |-> 36, Size |-> 2], Absolute |-> [Opcode
       |-> 44, Size |-> 3]])
  @@ ("BPL" :> [Relative |-> [Opcode |-> 16, Size |-> 2]])
  @@ ("BMI" :> [Relative |-> [Opcode |-> 48, Size |-> 2]])
  @@ ("BVC" :> [Relative |-> [Opcode |-> 80, Size |-> 2]])
  @@ ("BVS" :> [Relative |-> [Opcode |-> 112, Size |-> 2]])
  @@ ("BCC" :> [Relative |-> [Opcode |-> 144, Size |-> 2]])
  @@ ("BCS" :> [Relative |-> [Opcode |-> 176, Size |-> 2]])
  @@ ("BNE" :> [Relative |-> [Opcode |-> 208, Size |-> 2]])
  @@ ("BEQ" :> [Relative |-> [Opcode |-> 240, Size |-> 2]])
  @@ ("BRK" :> [Relative |-> [Opcode |-> 0, Size |-> 1]])
  @@ ("CMP" :> [Immediate |-> [Opcode |-> 201, Size |-> 2], ZeroPage |->
       [Opcode |-> 197, Size |-> 2], ZeroPageX |-> [Opcode |-> 213, Size
       |-> 2], Absolute |-> [Opcode |-> 205, Size |-> 3], AbsoluteX |->
       [Opcode |-> 221, Size |-> 3], AbsoluteY |-> [Opcode |-> 217, Size
       |-> 3], IndirectX |-> [Opcode |-> 193, Size |-> 2], IndirectY |->
       [Opcode |-> 209, Size |-> 2]])
  @@ ("CPX" :> [Immediate |-> [Opcode |-> 224, Size |-> 2], ZeroPage |->
       [Opcode |-> 228, Size |-> 2], Absolute |-> [Opcode |-> 236, Size
       |-> 3]])
  @@ ("CPY" :> [Immediate |-> [Opcode |-> 192, Size |-> 2], ZeroPage |->
       [Opcode |-> 196, Size |-> 2], Absolute |-> [Opcode |-> 204, Size
       |-> 3]])
  @@ ("DEC" :> [ZeroPage |-> [Opcode |-> 198, Size |-> 2], ZeroPageX |->
       [Opcode |-> 214, Size |-> 2], Absolute |-> [Opcode |-> 206, Size
       |-> 3], AbsoluteX |-> [Opcode |-> 222, Size |-> 3]])
  @@ ("EOR" :> [Immediate |-> [Opcode |-> 73, Size |-> 2], ZeroPage |-> [Opcode
       |-> 69, Size |-> 2], ZeroPageX |-> [Opcode |-> 85, Size |-> 2],
       Absolute |-> [Opcode |-> 77, Size |-> 3], AbsoluteX |-> [Opcode |->
       93, Size |-> 3], AbsoluteY |-> [Opcode |-> 89, Size |-> 3],
       IndirectX |-> [Opcode |-> 65, Size |-> 2], IndirectY |-> [Opcode
       |-> 81, Size |-> 2]])
  @@ ("CLC" :> [Implicit |-> [Opcode |-> 24, Size |-> 1]])
  @@ ("SEC" :> [Implicit |-> [Opcode |-> 56, Size |-> 1]])
  @@ ("CLI" :> [Implicit |-> [Opcode |-> 88, Size |-> 1]])
  @@ ("SEI" :> [Implicit |-> [Opcode |-> 120, Size |-> 1]])
  @@ ("CLV" :> [Implicit |-> [Opcode |-> 184, Size |-> 1]])
  @@ ("CLD" :> [Implicit |-> [Opcode |-> 216, Size |-> 1]])
  @@ ("SED" :> [Implicit |-> [Opcode |-> 248, Size |-> 1]])
  @@ ("INC" :> [ZeroPage |-> [Opcode |-> 230, Size |-> 2], ZeroPageX |->
       [Opcode |-> 246, Size |-> 2], Absolute |-> [Opcode |-> 238, Size
       |-> 3], AbsoluteX |-> [Opcode |-> 254, Size |-> 3]])
  @@ ("JMP" :> [Absolute |-> [Opcode |-> 76, Size |-> 3], Indirect |-> [Opcode
       |-> 108, Size |-> 3]])
  @@ ("JSR" :> [Absolute |-> [Opcode |-> 32, Size |-> 3]])
  @@ ("LDA" :> [Immediate |-> [Opcode |-> 169, Size |-> 2], ZeroPage |->
       [Opcode |-> 165, Size |-> 2], ZeroPageX |-> [Opcode |-> 181, Size
       |-> 2], Absolute |-> [Opcode |-> 173, Size |-> 3], AbsoluteX |->
       [Opcode |-> 189, Size |-> 3], AbsoluteY |-> [Opcode |-> 185, Size
       |-> 3], IndirectX |-> [Opcode |-> 161, Size |-> 2], IndirectY |->
       [Opcode |-> 177, Size |-> 2]])
  @@ ("LDX" :> [Immediate |-> [Opcode |-> 162, Size |-> 2], ZeroPage |->
       [Opcode |-> 166, Size |-> 2], ZeroPageY |-> [Opcode |-> 182, Size
       |-> 2], Absolute |-> [Opcode |-> 174, Size |-> 3], AbsoluteY |->
       [Opcode |-> 190, Size |-> 3]])
  @@ ("LDY" :> [Immediate |-> [Opcode |-> 160, Size |-> 2], ZeroPage |->
       [Opcode |-> 164, Size |-> 2], ZeroPageX |-> [Opcode |-> 180, Size
       |-> 2], Absolute |-> [Opcode |-> 172, Size |-> 3], AbsoluteX |->
       [Opcode |-> 188, Size |-> 3]])
  @@ ("LSR" :> [Accumulator |-> [Opcode |-> 74, Size |-> 1], ZeroPage |->
       [Opcode |-> 70, Size |-> 2], ZeroPageX |-> [Opcode |-> 86, Size |->
       2], Absolute |-> [Opcode |-> 78, Size |-> 3], AbsoluteX |-> [Opcode
       |-> 94, Size |-> 3]])
  @@ ("NOP" :> [Implicit |-> [Opcode |-> 234, Size |-> 1]])
  @@ ("ORA" :> [Immediate |-> [Opcode |-> 9, Size |-> 2], ZeroPage |-> [Opcode
       |-> 5, Size |-> 2], ZeroPageX |-> [Opcode |-> 21, Size |-> 2],
       Absolute |-> [Opcode |-> 13, Size |-> 3], AbsoluteX |-> [Opcode |->
       29, Size |-> 3], AbsoluteY |-> [Opcode |-> 25, Size |-> 3],
       IndirectX |-> [Opcode |-> 1, Size |-> 2], IndirectY |-> [Opcode |->
       17, Size |-> 2]])
  @@ ("PHA" :> [Implicit |-> [Opcode |-> 72, Size |-> 1]])
  @@ ("PHP" :> [Implicit |-> [Opcode |-> 8, Size |-> 1]])
  @@ ("PLA" :> [Implicit |-> [Opcode |-> 104, Size |-> 1]])
  @@ ("PLP" :> [Implicit |-> [Opcode |-> 40, Size |-> 1]])
  @@ ("ROL" :> [Accumulator |-> [Opcode |-> 42, Size |-> 1], ZeroPage |->
       [Opcode |-> 38, Size |-> 2], ZeroPageX |-> [Opcode |-> 54, Size |->
       2], Absolute |-> [Opcode |-> 46, Size |-> 3], AbsoluteX |-> [Opcode
       |-> 62, Size |-> 3]])
  @@ ("ROR" :> [Accumulator |-> [Opcode |-> 106, Size |-> 1], ZeroPage |->
       [Opcode |-> 102, Size |-> 2], ZeroPageX |-> [Opcode |-> 118, Size
       |-> 2], Absolute |-> [Opcode |-> 110, Size |-> 3], AbsoluteX |->
       [Opcode |-> 126, Size |-> 3]])
  @@ ("RTI" :> [Implicit |-> [Opcode |-> 64, Size |-> 1]])
  @@ ("RTS" :> [Implicit |-> [Opcode |-> 96, Size |-> 1]])
  @@ ("SBC" :> [Immediate |-> [Opcode |-> 233, Size |-> 2], ZeroPage |->
       [Opcode |-> 229, Size |-> 2], ZeroPageX |-> [Opcode |-> 245, Size
       |-> 2], Absolute |-> [Opcode |-> 237, Size |-> 3], AbsoluteX |->
       [Opcode |-> 253, Size |-> 3], AbsoluteY |-> [Opcode |-> 249, Size
       |-> 3], IndirectX |-> [Opcode |-> 225, Size |-> 2], IndirectY |->
       [Opcode |-> 241, Size |-> 2]])
  @@ ("STA" :> [ZeroPage |-> [Opcode |-> 133, Size |-> 2], ZeroPageX |->
       [Opcode |-> 149, Size |-> 2], Absolute |-> [Opcode |-> 141, Size
       |-> 3], AbsoluteX |-> [Opcode |-> 157, Size |-> 3], AbsoluteY |->
       [Opcode |-> 153, Size |-> 3], IndirectX |-> [Opcode |-> 129, Size
       |-> 2], IndirectY |-> [Opcode |-> 145, Size |-> 2]])
  @@ ("STX" :> [ZeroPage |-> [Opcode |-> 134, Size |-> 2], ZeroPageY |->
       [Opcode |-> 150, Size |-> 2], Absolute |-> [Opcode |-> 142, Size
       |-> 3]])
  @@ ("STY" :> [ZeroPage |-> [Opcode |-> 132, Size |-> 2], ZeroPageX |->
       [Opcode |-> 148, Size |-> 2], Absolute |-> [Opcode |-> 140, Size
       |-> 3]])
  @@ ("TAX" :> [Implicit |-> [Opcode |-> 170, Size |-> 1]])
  @@ ("TXA" :> [Implicit |-> [Opcode |-> 138, Size |-> 1]])
  @@ ("TAY" :> [Implicit |-> [Opcode |-> 168, Size |-> 1]])
  @@ ("TYA" :> [Implicit |-> [Opcode |-> 152, Size |-> 1]])
  @@ ("TSX" :> [Implicit |-> [Opcode |-> 186, Size |-> 1]])
  @@ ("TXS" :> [Implicit |-> [Opcode |-> 154, Size |-> 1]])
  @@ ("DEX" :> [Implicit |-> [Opcode |-> 202, Size |-> 1]])
  @@ ("DEY" :> [Implicit |-> [Opcode |-> 136, Size |-> 1]])
  @@ ("INX" :> [Implicit |-> [Opcode |-> 232, Size |-> 1]])
  @@ ("INY" :> [Implicit |-> [Opcode |-> 200, Size |-> 1]])

\* a table in which no zero-page mode is ever found
supported_noZeroPage(inst, mode) ==
  /\ mode \in DOMAIN asmInstructionSet[inst]
  /\ mode \notin {"ZeroPage", "ZeroPageX", "ZeroPageY"}

\* inst.Modes[mode] exists
supported(inst, mode) == mode \in DOMAIN asmInstructionSet[inst]

\* isNumeric of the operand base
isNumeric(l) == l.sym = ""

\* parseValue of the operand base: a number, a symbol of the table, else 0
parseValue(symbols, l) ==
  IF l.sym = "" THEN l.num
  ELSE IF l.sym \in DOMAIN symbols THEN symbols[l.sym]
  ELSE 0

\* the addressing mode found, the operand value and the symbol name
Detected(l, mode, value) ==
  [ err |-> FALSE, AddressMode |-> mode, Value |-> value,
    SymbolName |-> IF mode = "Immediate" THEN "" ELSE l.sym ]

DetectError ==
  [ err |-> TRUE, AddressMode |-> "Implicit", Value |-> 0, SymbolName |-> "" ]

\* the zero-page mode if the value fits and the instruction has it, else
\* the wide mode if the instruction has it
narrowOrWide(symbols, l, narrow, wide) ==
  IF parseValue(symbols, l) < 256 /\ supported(l.Instruction, narrow)
  THEN Detected(l, narrow, parseValue(symbols, l))
  ELSE IF supported(l.Instruction, wide)
  THEN Detected(l, wide, parseValue(symbols, l))
  ELSE DetectError

detectAddressMode(symbols, l) ==
  IF l.Instruction \notin DOMAIN asmInstructionSet THEN DetectError
  ELSE IF l.form = "none"
  THEN IF l.Instruction \in {"LSR", "ASL", "ROL", "ROR"}
          /\ supported(l.Instruction, "Accumulator")
       THEN Detected(l, "Accumulator", 0)
       ELSE IF supported(l.Instruction, "Implicit")
       THEN Detected(l, "Implicit", 0)
       ELSE DetectError
  ELSE IF l.form = "A"
  THEN IF supported(l.Instruction, "Accumulator")
       THEN Detected(l, "Accumulator", 0)
       ELSE DetectError
  ELSE IF l.form = "#"
  THEN IF supported(l.Instruction, "Immediate")
       THEN Detected(l, "Immediate", parseValue(symbols, l))
       ELSE DetectError
  ELSE IF l.form = "(,X)"
  THEN IF supported(l.Instruction, "IndirectX")
       THEN Detected(l, "IndirectX", parseValue(symbols, l))
       ELSE DetectError
  ELSE IF l.form = "(),Y"
  THEN IF supported(l.Instruction, "IndirectY")
       THEN Detected(l, "IndirectY", parseValue(symbols, l))
       ELSE DetectError
  ELSE IF l.form = "()"
  THEN IF supported(l.Instruction, "Indirect")
       THEN Detected(l, "Indirect", parseValue(symbols, l))
       ELSE DetectError
  ELSE IF l.form = ",X"
  THEN narrowOrWide(symbols, l, "ZeroPageX", "AbsoluteX")
  ELSE IF l.form = ",Y"
  THEN narrowOrWide(symbols, l, "ZeroPageY", "AbsoluteY")
  ELSE IF parseValue(symbols, l) < 256 /\ supported(l.Instruction, "ZeroPage")
  THEN Detected(l, "ZeroPage", parseValue(symbols, l))
  ELSE IF supported(l.Instruction, "Absolute")
  THEN Detected(l, "Absolute", parseValue(symbols, l))
  ELSE IF supported(l.Instruction, "Relative")
  THEN Detected(l, "Relative", parseValue(symbols, l))
  ELSE DetectError

\* ParseLine: the line with its addressing mode, or an error
ParseLine(symbols, l) ==
  IF l.Instruction # "" THEN detectAddressMode(symbols, l)
  ELSE [ err |-> FALSE, AddressMode |-> "Implicit", Value |-> 0,
         SymbolName |-> "" ]

directiveHandlers == {".org", ".byte", ".word"}

\* n times append(a.output, 0)
Zeros(n) == [i \in 1 .. n |-> 0]

RECURSIVE Words(_)
Words(values) ==
  IF values = <<>> THEN <<>>
  ELSE <<Head(values) % 256, Head(values) \div 256>> \o Words(Tail(values))

\* handleOrg
\* .org that only moves the PC in either pass
handleOrg_noPad(a, l) == [a EXCEPT !.pc = l.num]

handleOrg(a, l) ==
  IF a.currentPass = 1 THEN [a EXCEPT !.pc = l.num]
  ELSE [a EXCEPT !.output = IF Len(a.output) > 0
                            THEN @ \o Zeros((l.num - a.pc + 65536) % 65536)
                            ELSE @,
                 !.pc = l.num]

\* handleByte
handleByte(a, l) ==
  [a EXCEPT !.output = IF a.currentPass = 2
                       THEN @ \o [i \in 1 .. Len(l.values) |->
                                    l.values[i] % 256]
                       ELSE @,
            !.pc = (@ + Len(l.values)) % 65536]

\* handleWord
handleWord(a, l) ==
  [a EXCEPT !.output = IF a.currentPass = 2 THEN @ \o Words(l.values) ELSE @,
            !.pc = (@ + Len(l.values) * 2) % 65536]

\* the handler of a directive; a directive without a handler does nothing
directive(a, l) ==
  IF l.Directive = ".org" THEN handleOrg(a, l)
  ELSE IF l.Directive = ".byte" THEN handleByte(a, l)
  ELSE IF l.Directive = ".word" THEN handleWord(a, l)
  ELSE a

\* int16(x) of a uint16
S16(x) == IF x >= 32768 THEN x - 65536 ELSE x

\* the distance counted from the branch opcode instead of the next instruction
branchOffset_fromOpcode(value, pc) ==
  S16((S16(value) - S16(pc) + 65536) % 65536)

\* int16(line.Value) - int16(nextPC), in int16
branchOffset(value, pc) ==
  S16((S16(value) - S16((pc + 2) % 65536) + 65536) % 65536)

\* the zero-page mode generateCode tries for a symbol below $0100; Implicit
\* is the zero value of the mode variable
optimizedMode(mode) ==
  IF mode = "Absolute" THEN "ZeroPage"
  ELSE IF mode = "AbsoluteX" THEN "ZeroPageX"
  ELSE IF mode = "AbsoluteY" THEN "ZeroPageY"
  ELSE "Implicit"

\* generateCode: the symbol's final value and the zero-page optimisation
resolve(a, l, p) ==
  IF p.SymbolName # "" /\ p.SymbolName \in DOMAIN a.symbols
  THEN IF a.symbols[p.SymbolName] < 256
          /\ optimizedMode(p.AddressMode) # p.AddressMode
          /\ supported(l.Instruction, optimizedMode(p.AddressMode))
       THEN [p EXCEPT !.Value = a.symbols[p.SymbolName],
                      !.AddressMode = optimizedMode(p.AddressMode)]
       ELSE [p EXCEPT !.Value = a.symbols[p.SymbolName]]
  ELSE p

\* the opcode and operand bytes of an instruction in mode p.AddressMode
emit(a, l, p) ==
  IF p.AddressMode = "Relative"
  THEN IF branchOffset(p.Value, a.pc) < -128 \/ branchOffset(p.Value, a.pc) > 127
       THEN [a EXCEPT !.output =
                        Append(@, asmInstructionSet[l.Instruction]
                                    [p.AddressMode].Opcode),
                      !.err = TRUE]
       ELSE [a EXCEPT !.output =
                        @ \o <<asmInstructionSet[l.Instruction]
                                 [p.AddressMode].Opcode,
                               (branchOffset(p.Value, a.pc) + 256) % 256>>,
                      !.pc = (@ + asmInstructionSet[l.Instruction]
                                    [p.AddressMode].Size) % 65536]
  ELSE [a EXCEPT !.output =
                   @ \o <<asmInstructionSet[l.Instruction]
                            [p.AddressMode].Opcode>>
                     \o (IF asmInstructionSet[l.Instruction]
                              [p.AddressMode].Size = 2
                         THEN <<p.Value % 256>>
                         ELSE IF asmInstructionSet[l.Instruction]
                                   [p.AddressMode].Size = 3
                         THEN <<p.Value % 256, p.Value \div 256>>
                         ELSE <<>>),
                 !.pc = (@ + asmInstructionSet[l.Instruction]
                               [p.AddressMode].Size) % 65536]

\* generateCode for a parsed line
generateCode(a, l, p) ==
  IF l.Directive # "" THEN directive(a, l)
  ELSE IF l.Instruction = "" THEN a
  ELSE IF l.Instruction \notin DOMAIN asmInstructionSet
  THEN [a EXCEPT !.err = TRUE]
  ELSE IF ~supported(l.Instruction, resolve(a, l, p).AddressMode)
  THEN [a EXCEPT !.err = TRUE]
  ELSE emit(a, l, resolve(a, l, p))

\* the first pass over a parsed line: label, directive, size
collect(a, l, p) ==
  \* the label is recorded before the directive moves the PC
  [ directive([a EXCEPT !.symbols =
                          IF l.Label # "" THEN (l.Label :> a.pc) @@ @ ELSE @],
              l)
    EXCEPT !.pc = IF l.Instruction # ""
                     /\ l.Instruction \in DOMAIN asmInstructionSet
                     /\ supported(l.Instruction, p.AddressMode)
                  THEN (@ + asmInstructionSet[l.Instruction]
                                [p.AddressMode].Size) % 65536
                  ELSE @ ]

\* the bytes a pass-2 line appended to the output
Emitted(a, r) == SubSeq(r.output, Len(a.output) + 1, Len(r.output))

\* what pass 2 made of a line: the PC of a labelled statement, the address
\* encoded for a symbol reference, the bytes emitted
ObsPass2(a, l, p, r) ==
  [r EXCEPT !.line = IF r.err THEN @ ELSE @ + 1,
            !.at2 = IF l.Label # "" THEN (l.Label :> a.pc) @@ @ ELSE @,
            !.refs = IF l.Instruction # "" /\ ~r.err /\ p.SymbolName # ""
                        /\ p.SymbolName \in DOMAIN a.symbols
                     THEN @ \cup {[sym |-> p.SymbolName,
                                   value |-> resolve(a, l, p).Value]}
                     ELSE @,
            !.last = [n |-> a.line, l |-> l, bytes |-> Emitted(a, r)]]

\* Assemble, first loop: one line of pass 1
AssemblePass1 ==
  /\ ~asm.err /\ ~asm.done
  /\ asm.currentPass = 1
  /\ asm.line <= Len(asm.source)
  /\ \E l \in {asm.source[asm.line]} :
       \E p \in {ParseLine(asm.symbols, l)} :
          asm' = IF p.err THEN [asm EXCEPT !.err = TRUE]
                 ELSE [collect(asm, l, p) EXCEPT !.line = @ + 1]
  /\ UNCHANGED <<machinevars, dis>>

\* Assemble, between the loops: pass 2 starts at PC 0 on the same source
AssembleSecondPass ==
  /\ ~asm.err /\ ~asm.done
  /\ asm.currentPass = 1
  /\ asm.line > Len(asm.source)
  /\ asm' = [asm EXCEPT !.currentPass = 2, !.pc = 0, !.line = 1]
  /\ UNCHANGED <<machinevars, dis>>

\* Assemble, second loop: one line of pass 2
AssemblePass2 ==
  /\ ~asm.err /\ ~asm.done
  /\ asm.currentPass = 2
  /\ asm.line <= Len(asm.source)
  /\ \E l \in {asm.source[asm.line]} :
       \E p \in {ParseLine(asm.symbols, l)} :
          asm' = IF p.err THEN [asm EXCEPT !.err = TRUE]
                 ELSE ObsPass2(asm, l, p, generateCode(asm, l, p))
  /\ UNCHANGED <<machinevars, dis>>

\* Assemble returns nil
AssembleReturn ==
  /\ ~asm.err /\ ~asm.done
  /\ asm.currentPass = 2
  /\ asm.line > Len(asm.source)
  /\ asm' = [asm EXCEPT !.done = TRUE]
  /\ UNCHANGED <<machinevars, dis>>

Org(addr) == [NoLine EXCEPT !.Directive = ".org", !.num = addr]

Byte(values) == [NoLine EXCEPT !.Directive = ".byte", !.values = values]

Inst(name, form, sym) ==
  [NoLine EXCEPT !.Instruction = name, !.form = form, !.sym = sym]

\* the statements of the sources: data, a return, and references to the
\* symbol data by instructions with and without zero-page modes
AsmLines ==
  { Byte(<<18>>), Inst("RTS", "none", ""),
    Inst("LDA", "plain", "data"), Inst("LDA", ",X", "data"),
    Inst("LDA", ",Y", "data"), Inst("LDX", ",Y", "data"),
    Inst("JMP", "plain", "data"), Inst("BEQ", "plain", "data") }

RECURSIVE LineSeqs(_)
LineSeqs(n) ==
  IF n = 0 THEN {<<>>}
  ELSE { Append(s, l) : s \in LineSeqs(n - 1), l \in AsmLines }

\* the sources assembled: up to MaxLines statements, the label data: on at
\* most one of them, with or without a leading .org $0200
AsmSources ==
  { o \o (IF i \in DOMAIN s THEN [s EXCEPT ![i].Label = "data"] ELSE s) :
      o \in {<<>>, <<Org(512)>>},
      s \in UNION { LineSeqs(n) : n \in 1 .. MaxLines },
      i \in 0 .. MaxLines }

InitAsm ==
  /\ cia1 = NewCIA
  /\ cia2 = NewCIA
  /\ obs = NoObs
  /\ InitMachine(NoImage)
  /\ mgr = NewManager
  /\ mobs = NoMObs
  /\ dis = NoDis
  /\ \E source \in AsmSources :
       asm = [NewAssembler EXCEPT !.source = source, !.currentPass = 1]

NextAsm ==
  AssemblePass1 \/ AssembleSecondPass \/ AssemblePass2 \/ AssembleReturn

SpecAsm == InitAsm /\ [][NextAsm]_vars

\* C29: in a successful assembly every reference to a label, defined before
\* or after the referencing instruction, is encoded as the address at which
\* the labelled statement is emitted in pass 2: the PC recorded for a label
\* in pass 1 equals the PC of its statement in pass 2.
C29_LabelAddresses ==
  asm.done /\ ~asm.err =>
    /\ \A label \in DOMAIN asm.at2 : asm.symbols[label] = asm.at2[label]
    /\ \A r \in asm.refs :
         r.sym \in DOMAIN asm.at2 => r.value = asm.at2[r.sym]

\* the zero-page and the absolute mode of an operand shape
NarrowMode(form) ==
  IF form = ",X" THEN "ZeroPageX"
  ELSE IF form = ",Y" THEN "ZeroPageY"
  ELSE "ZeroPage"

WideMode(form) ==
  IF form = ",X" THEN "AbsoluteX"
  ELSE IF form = ",Y" THEN "AbsoluteY"
  ELSE "Absolute"

\* the last line of pass 2 was an instruction on a symbol below $0100 in a
\* shape that has an absolute or a zero-page mode for it
SymbolBelow256 ==
  /\ asm.last.n > 0
  /\ ~asm.err
  /\ asm.last.l.Instruction # ""
  /\ asm.last.l.form \in {"plain", ",X", ",Y"}
  /\ asm.last.l.sym \in DOMAIN asm.symbols
  /\ asm.symbols[asm.last.l.sym] < 256
  /\ \/ NarrowMode(asm.last.l.form)
          \in DOMAIN asmInstructionSet[asm.last.l.Instruction]
     \/ WideMode(asm.last.l.form)
          \in DOMAIN asmInstructionSet[asm.last.l.Instruction]

\* C30: in pass 2 an instruction whose operand is a symbol with a value
\* below $0100 is emitted in the zero-page form of its mode (ZeroPage,
\* ZeroPageX, ZeroPageY) whenever the instruction has that mode, and in the
\* absolute form otherwise.
C30_ZeroPageForm ==
  SymbolBelow256 =>
    asm.last.bytes =
      IF NarrowMode(asm.last.l.form)
           \in DOMAIN asmInstructionSet[asm.last.l.Instruction]
      THEN << asmInstructionSet[asm.last.l.Instruction]
                [NarrowMode(asm.last.l.form)].Opcode,
              asm.symbols[asm.last.l.sym] >>
      ELSE << asmInstructionSet[asm.last.l.Instruction]
                [WideMode(asm.last.l.form)].Opcode,
              asm.symbols[asm.last.l.sym], 0 >>

\* data: .byte $12 followed by LDA data has emitted 12 A5 00
C30_Witness ==
  /\ SymbolBelow256
  /\ asm.source = <<[Byte(<<18>>) EXCEPT !.Label = "data"],
                    Inst("LDA", "plain", "data")>>
  /\ asm.output = <<18, 165, 0>>

(***************************************************************************)
(* Assembler: branches, .org, and the lines Assemble has to refuse         *)
(***************************************************************************)
Num(name, form, value) ==
  [NoLine EXCEPT !.Instruction = name, !.form = form, !.num = value]

\* the addresses a branch is assembled at: the start and the end of the
\* address space, a page start, and both sides of $8000
BranchPCs == {0, 512, 32752, 65520}

\* target - (PC + 2) of the branches assembled
BranchDistances == {-129, -128, -1, 0, 16, 127, 128}

\* .org PC followed by a branch to a numeric target
BranchSources ==
  { <<Org(pc), Num(name, "plain", (pc + 2 + d + 65536) % 65536)>> :
      pc \in BranchPCs, d \in BranchDistances, name \in {"BEQ", "BNE"} }

\* the first .org of the sources with a second one
OrgStarts == {4096, 65520}

\* what stands between the two .org: nothing emitted, one, two or three bytes
OrgBodies ==
  { Org(256), Byte(<<1>>), Byte(<<1, 2>>), Num("LDA", "#", 0),
    Num("JMP", "plain", 4096) }

\* the second .org: ahead of the PC (with $1010 after the two bytes at $1000
\* 14 bytes ahead), at the PC, across the end of the address space, and
\* behind the PC
OrgTargets == {4112, 4098, 2, 4096}

\* .org, a statement, .org, a statement
OrgSources ==
  { <<Org(a), x, Org(b), Num("LDA", "#", 1)>> :
      a \in OrgStarts, x \in OrgBodies, b \in OrgTargets }

\* the identifiers of the sources that start with a dot
DottedWords == {".org", ".byte", ".word", ".text", ".end"}

\* readIdentifier: the token type of an identifier
readIdentifier(value) ==
  IF value \in DOMAIN asmInstructionSet THEN "INSTRUCTION"
  ELSE IF value \in DottedWords THEN "DIRECTIVE"
  ELSE "LABEL"

\* ParseLine up to detectAddressMode, on a line that starts with the
\* identifier value followed by an operand: a LABEL token becomes the label
\* of the line and the operand tokens after it are dropped
Statement(value, form, num) ==
  IF readIdentifier(value) = "INSTRUCTION" THEN Num(value, form, num)
  ELSE IF readIdentifier(value) = "DIRECTIVE"
  THEN [NoLine EXCEPT !.Directive = value, !.num = num]
  ELSE [NoLine EXCEPT !.Label = value]

\* statement keywords that are no mnemonic of the instruction table
UnknownMnemonics == {"FOO", "LDQ"}

\* statements Assemble is to refuse, and two it is to accept: unknown
\* mnemonics, unknown directives, references to a symbol defined nowhere
FaultLines ==
  { Statement("FOO", "#", 1), Statement("LDQ", "none", 0),
    Statement(".text", "none", 0), Statement(".end", "none", 0),
    Inst("LDA", "plain", "nowhere"), Inst("JMP", "plain", "nowhere"),
    Inst("STA", ",X", "nowhere"), Inst("BNE", "plain", "nowhere"),
    Statement("LDA", "#", 1), Statement(".org", "none", 4112) }

\* .org $1000, LDA #$00, one of the statements, RTS
FaultSources ==
  { <<Org(4096), Num("LDA", "#", 0), x, Inst("RTS", "none", "")>> :
      x \in FaultLines }

EdgeSources == BranchSources \cup OrgSources \cup FaultSources

InitAsmEdge ==
  /\ cia1 = NewCIA
  /\ cia2 = NewCIA
  /\ obs = NoObs
  /\ InitMachine(NoImage)
  /\ mgr = NewManager
  /\ mobs = NoMObs
  /\ dis = NoDis
  /\ \E source \in EdgeSources :
       asm = [NewAssembler EXCEPT !.source = source, !.currentPass = 1]

SpecAsmEdge == InitAsmEdge /\ [][NextAsm]_vars

\* pass 2 has just handled a branch that follows a .org
BranchAssembled ==
  /\ asm.last.n = 2
  /\ Len(asm.source) = 2
  /\ asm.source[1].Directive = ".org"
  /\ asm.last.l.Instruction \in {"BEQ", "BNE"}

\* the signed bytes d with PC + 2 + d = T in the 16-bit address space
BranchReach ==
  { d \in -128 .. 127 :
      (asm.source[1].num + 2 + d + 65536) % 65536 = asm.last.l.num }

\* C31: for a branch at address PC with target T the operand byte emitted
\* is the signed 8-bit d with PC + 2 + d = T modulo 2^16 when there is one,
\* and assembly returns an error when there is none.
C31_BranchOffset ==
  BranchAssembled =>
    IF BranchReach # {}
    THEN /\ ~asm.err
         /\ \E d \in BranchReach :
              asm.last.bytes =
                << asmInstructionSet[asm.last.l.Instruction].Relative.Opcode,
                   (d + 256) % 256 >>
    ELSE asm.err

\* BEQ $0281 at $0200 has been assembled to F0 7F
C31_Witness ==
  /\ BranchAssembled
  /\ asm.source[1].num = 512
  /\ asm.last.bytes = <<240, 127>>
  /\ ~asm.err

\* C31 as stated, the difference T - (PC + 2) taken over the integers
C31_BranchOffsetLiteral ==
  BranchAssembled =>
    IF asm.last.l.num - (asm.source[1].num + 2) \in -128 .. 127
    THEN /\ ~asm.err
         /\ asm.last.bytes =
              << asmInstructionSet[asm.last.l.Instruction].Relative.Opcode,
                 (asm.last.l.num - (asm.source[1].num + 2) + 256) % 256 >>
    ELSE asm.err

\* pass 2 has just handled the second .org of a source
OrgHandled ==
  /\ asm.currentPass = 2
  /\ asm.last.n = 3
  /\ asm.last.l.Directive = ".org"

\* the output before the line pass 2 handled last
OutputBefore ==
  SubSeq(asm.output, 1, Len(asm.output) - Len(asm.last.bytes))

\* the address of the byte emitted next, the first byte of the output lying
\* at the address of the first .org
NextByteAddress == (asm.source[1].num + Len(asm.output)) % 65536

UndefinedReference ==
  \E i \in DOMAIN asm.source :
    /\ asm.source[i].Instruction # ""
    /\ asm.source[i].sym # ""
    /\ \A j \in DOMAIN asm.source : asm.source[j].Label # asm.source[i].sym

\* C33: assembling a source in which an instruction operand references a
\* symbol defined nowhere returns an error: Assemble does not return nil.
C33_UndefinedSymbol == UndefinedReference => ~asm.done

\* a line of the source starts with a keyword that is no mnemonic
UnknownInstruction ==
  \E i \in DOMAIN asm.source : asm.source[i].Label \in UnknownMnemonics

\* C34: assembling a source line whose statement keyword is not a mnemonic
\* of the instruction table returns an error: Assemble does not return nil.
C34_UnknownInstruction == UnknownInstruction => ~asm.done

\* a line of the source holds a directive without a handler
UnknownDirective ==
  \E i \in DOMAIN asm.source :
    /\ asm.source[i].Directive # ""
    /\ asm.source[i].Directive \notin directiveHandlers

\* C35: assembling a source line with a directive other than .org, .byte
\* or .word returns an error: Assemble does not return nil.
C35_UnknownDirective == UnknownDirective => ~asm.done

\* C36: whenever assembly ends with an error the output obtainable from the
\* assembler afterwards (GetOutput) is empty.
C36_OutputDiscarded == asm.err => asm.output = <<>>

(***************************************************************************)
(* The CIA interrupt line across Updates, writes and reads of the ICR      *)
(***************************************************************************)
\* the step is a read of the interrupt control register of CIA 1
ICRRead == obs'.op = "read" /\ obs'.reg = ICR /\ obs'.chip = 1

\* C37: once the interrupt line of a CIA is high it stays high through
\* every Update and register write until the ICR is read, and it is low
\* immediately after that read.
C37_LineUntilICRRead ==
  [][ cia1.irq => IF ICRRead THEN ~cia1'.irq ELSE cia1'.irq ]_vars

\* C38: with timer A in continuous mode and the TA bit of the ICR mask set,
\* an Update in which timer A underflows, made after software has read the
\* ICR, returns a new interrupt event.
C38_EveryUnderflowSignals ==
  [][ ( /\ obs.op = "read" /\ obs.reg = ICR /\ obs.chip = 1
        /\ And(cia1.icrMask, ICR_TA) # 0
        /\ And(cia1.cra, CRA_RUNMODE) = 0
        /\ obs'.op = "update" /\ obs'.chip = 1
        /\ obs'.ufCount > 0 ) => obs'.ev.IRQ ]_vars

(***************************************************************************)
(* Timer B counting the underflows of timer A                              *)
(***************************************************************************)
\* timer A loaded with a short count and run on the system clock, timer B
\* started on the underflows of timer A
CascadeWrites ==
  ({TA_LO} \X {1, 2}) \cup ({TA_HI} \X {0})
    \cup ({CRA} \X {0, CRA_START})
    \cup ({CRB} \X {0, CRB_START + 64})

CascadeWrite == CIA1Write(CascadeWrites)

CascadeRead == CIA1Read({TB_LO})

NextCascade == CascadeWrite \/ CascadeRead \/ CIA1Update

SpecCascade == Init /\ [][NextCascade]_vars

\* timer B is started in the timer-A-underflow input mode
CountsUnderflows(c) ==
  And(c.crb, CRB_START) # 0 /\ And(c.crb, CRB_INMODE) = 64

\* C39: with timer B started in the timer-A-underflow input mode, an Update
\* leaves the counter of timer B lower by the number of its cycles on which
\* timer A underflowed (the counter staying above zero), and unchanged when
\* there was none.
C39_TimerBCountsUnderflows ==
  [][ ( /\ obs'.op = "update" /\ obs'.chip = 1
        /\ CountsUnderflows(cia1)
        /\ cia1.timerB > obs'.ufCount )
      => cia1'.timerB = cia1.timerB - obs'.ufCount ]_vars

(***************************************************************************)
(* The raster interrupt as $D019 shows it                                  *)
(***************************************************************************)
\* C40: when raster-Y has advanced to the raster-IRQ line with the raster
\* interrupt enabled in the mask (Update returned the raster-IRQ event), a
\* read of $D019 that follows, before any write to it, returns a value with
\* bit 0 set.
C40_RasterBitReadable ==
  [][ ( /\ vobs.ev = "EventRasterIRQ"
        /\ vobs'.op = "read" /\ vobs'.reg = RegInterrupt )
      => And(vobs'.val, 1) # 0 ]_vars

====
